---- MODULE Spec2Model ----
(***************************************************************************)
(* EV_Central (src/central/ev_central.py) and the CP engine                *)
(* (src/charging_point/ev_cp_engine.py) as a state machine.                *)
(*                                                                         *)
(* Every handler of Central is two steps: the part it runs inside          *)
(* `with self.lock` (one atomic step, since one mutex serializes them), and *)
(* the part it runs after releasing the lock (storage calls and socket     *)
(* sends), kept in pend[t] until the thread t runs it.  Energy is counted   *)
(* in units of 1/14 kWh, so that the code's divisions by 14.0 are exact.   *)
(***************************************************************************)
EXTENDS Integers, Sequences, FiniteSets, TLC

\* ---------------------------------------------------------------- bounds
MaxHist == 2
MaxTime == 1
MaxAlerts == 1
MaxUnits == 2
MaxQueue == 3
MaxInFlight == 2

\* ------------------------------------------------------ program constants
\* total_seconds = 14.0: the seconds a full charge takes
TotalSeconds == 14
\* cp.get("kwh_needed", 10): 10 kWh, in units of 1/14 kWh
DefaultKwhNeeded == 140
\* kwh_this_second = session["kwh_needed"] / 14.0
UpdatesPerCharge == 14

NONE == "NONE"
NoTime == 0 - 1
Absent == 0 - 1

ACTIVATED == "ACTIVATED"
SUPPLYING == "SUPPLYING"
STOPPED == "STOPPED"
OUT_OF_ORDER == "OUT_OF_ORDER"
DISCONNECTED == "DISCONNECTED"
CP_STATES == {ACTIVATED, SUPPLYING, STOPPED, OUT_OF_ORDER, DISCONNECTED}

\* ------------------------------------------------- inputs the peers choose
CPIds == {"c1", "c2"}
DriverIds == {"d1", "d2"}
KwhRequests == {14}
Prices == {2}
\* (lat, lon) as the peer wrote them
Locations == {<<"40.5", "-3.1">>}
Increments == {14}
Amounts == {14}
HeartbeatStates == {ACTIVATED, SUPPLYING, STOPPED}

Conns == {1, 2, 3, 4}
AdminThread == 0
Threads == {AdminThread} \cup Conns

\* --------------------------------------------------------------- helpers
Put(f, k, v) == [x \in (DOMAIN f) \cup {k} |-> IF x = k THEN v ELSE f[x]]
Del(f, k) == [x \in (DOMAIN f) \ {k} |-> f[x]]
Min(a, b) == IF a <= b THEN a ELSE b

RECURSIVE Flatten(_)
Flatten(ss) == IF ss = <<>> THEN <<>> ELSE Head(ss) \o Flatten(Tail(ss))

VARIABLES
    charging_points,   \* self.charging_points: cp_id -> record
    drivers,           \* self.drivers: driver_id -> record
    entity_to_socket,  \* self.entity_to_socket: id -> connection
    monitors,          \* self.monitors: cp_id -> connection
    weather_alerts,    \* self.weather_alerts: list of cp ids with an alert
    history,           \* data/charging_history.txt
    driver_file,       \* data/drivers.txt: driver_id -> statistics
    conn,              \* each connection: "new", "open" or "closed"
    pend,              \* each thread's work after it released the lock
    sent,              \* the frames written to sockets by the last step
    now,               \* time.time(), in seconds
    sessions_ended,    \* how many authorized sessions were terminated
    engine,            \* the engine of c1: EVCPEngine's state and session
    to_engine,         \* frames Central wrote that the engine has yet to read
    to_central,        \* frames the engine wrote that Central has yet to read
    outbox,            \* the field lists a peer builds and encodes, in order
    stream,            \* the bytes of the peer that recv() has yet to return
    buffer,            \* _handle_client's `buffer`
    dispatched,        \* the messages handed to _process_message, in order
    parsed,            \* the (is_valid, fields) a frame was decoded to, if any
    response,          \* the body or status of the last HTTP response, if any
    sending,           \* each thread's socket.send in progress: bytes yet to be taken
    written,           \* the bytes the driver's connection has taken, in order
    monitor,           \* the monitor of c1: EVCPMonitor's health fields
    checks,            \* the outcomes of the monitor's last health checks
    notices,           \* the frames the monitor wrote to Central, in order
    auto,              \* the automated driver d1: EVDriverAuto's fields
    to_driver          \* frames Central wrote that the driver has yet to read

vars == <<charging_points, drivers, entity_to_socket, monitors, weather_alerts,
          history, driver_file, conn, pend, sent, now, sessions_ended,
          engine, to_engine, to_central,
          outbox, stream, buffer, dispatched, parsed, response, sending, written,
          monitor, checks, notices, auto, to_driver>>

\* ---------------------------------------------------------------- records
new_cp(state, location, price) ==
    [state |-> state, location |-> location, price_per_kwh |-> price,
     current_driver |-> NONE,
     kwh_delivered |-> 0, amount_euro |-> 0, session_start |-> NoTime,
     charging_complete |-> FALSE, kwh_needed |-> Absent]

new_driver == [status |-> "IDLE", current_cp |-> NONE]

\* A variant of the reset against which the properties below are tried.
reset_session_keeping_driver(cp) ==
    [cp EXCEPT !.kwh_delivered = 0, !.amount_euro = 0,
               !.session_start = NoTime, !.charging_complete = FALSE]

\* The session fields every terminator clears.
reset_session(cp) ==
    [cp EXCEPT !.current_driver = NONE, !.kwh_delivered = 0, !.amount_euro = 0,
               !.session_start = NoTime, !.charging_complete = FALSE]

\* cp.get("kwh_needed", 10)
get_kwh_needed(cp) == IF cp.kwh_needed = Absent THEN DefaultKwhNeeded ELSE cp.kwh_needed

\* int(time.time() - cp["session_start"]) if cp["session_start"] else 0
duration_of(cp) == IF cp.session_start # NoTime THEN now - cp.session_start ELSE 0

driver_idle(ds, d) == IF d \in DOMAIN ds THEN Put(ds, d, new_driver) ELSE ds

\* ----------------------------------------------------------------- frames
DENY(d, cp, reason) == [type |-> "DENY", driver |-> d, cp |-> cp, reason |-> reason]
AUTHORIZE_DRIVER(d, cp, k, p) ==
    [type |-> "AUTHORIZE", driver |-> d, cp |-> cp, kwh |-> k, price |-> p]
AUTHORIZE_CP(d, cp, k) == [type |-> "AUTHORIZE", driver |-> d, cp |-> cp, kwh |-> k]
ACKNOWLEDGE(id, what) == [type |-> "ACKNOWLEDGE", id |-> id, what |-> what]
TICKET(cp, k, a) == [type |-> "TICKET", cp |-> cp, kwh |-> k, amount |-> a]
SUPPLY_UPDATE(cp, k, a) == [type |-> "SUPPLY_UPDATE", cp |-> cp, kwh |-> k, amount |-> a]
MONITOR_NOTE(type, cp, d) == [type |-> type, cp |-> cp, driver |-> d]
COMMAND(type, cp) == [type |-> type, cp |-> cp]
HEARTBEAT(cp, state) == [type |-> "HEARTBEAT", cp |-> cp, state |-> state]

\* One write to a socket: where, what, and whether self.lock was held.
Wrote(c, m, locked) == [to |-> c, msg |-> m, locked |-> locked]

\* ------------------------------------------------ work after the lock
HistOp(cp, d, k, a, dur) ==
    [op |-> "hist", rec |-> [cp_id |-> cp, driver_id |-> d, kwh_delivered |-> k,
                             total_amount |-> a, duration_seconds |-> dur]]
SockOp(c, m) == [op |-> "sock", to |-> c, msg |-> m]
EntOp(id, m) == [op |-> "ent", id |-> id, msg |-> m]
MonOp(cp, m) == [op |-> "mon", id |-> cp, msg |-> m]
DriverOp(d) == [op |-> "driver", id |-> d]
StopOp(cp, m, ticket, d, m2) ==
    [op |-> "stop", id |-> cp, msg |-> m, ticket |-> ticket, driver |-> d, msg2 |-> m2]

\* socket.send raises on a socket Central has closed.
Writable(c) == conn[c] = "open"

\* The frames one operation writes, each send in its own try/except.
EmitOp(o) ==
    CASE o.op = "sock" -> IF Writable(o.to) THEN <<Wrote(o.to, o.msg, FALSE)>> ELSE <<>>
      [] o.op = "ent" ->
            IF o.id \in DOMAIN entity_to_socket /\ Writable(entity_to_socket[o.id])
            THEN <<Wrote(entity_to_socket[o.id], o.msg, FALSE)>> ELSE <<>>
      [] o.op = "mon" ->
            IF o.id \in DOMAIN monitors /\ Writable(monitors[o.id])
            THEN <<Wrote(monitors[o.id], o.msg, FALSE)>> ELSE <<>>
      [] o.op = "stop" ->
            \* one try block: a failed STOP_COMMAND skips the ticket
            IF o.id \in DOMAIN entity_to_socket /\ Writable(entity_to_socket[o.id])
            THEN <<Wrote(entity_to_socket[o.id], o.msg, FALSE)>>
                 \o (IF o.ticket /\ o.driver \in DOMAIN entity_to_socket
                        /\ Writable(entity_to_socket[o.driver])
                     THEN <<Wrote(entity_to_socket[o.driver], o.msg2, FALSE)>>
                     ELSE <<>>)
            ELSE <<>>
      [] OTHER -> <<>>

EmitAll(ops) == Flatten([i \in 1..Len(ops) |-> EmitOp(ops[i])])
HistRecs(ops) == Flatten([i \in 1..Len(ops) |->
                    IF ops[i].op = "hist" THEN <<ops[i].rec>> ELSE <<>>])

\* A variant of the storage call that loses the record.
discard_charging_session(h, rec) == h

\* FileStorage.save_charging_session
save_charging_session(h, rec) == Append(h, rec)

\* FileStorage.update_driver_stats
update_driver_stats(df, d, amount) ==
    IF d \in DOMAIN df
    THEN Put(df, d, [total_charges |-> df[d].total_charges + 1,
                     total_spent |-> df[d].total_spent + amount])
    ELSE df

\* FileStorage.save_driver
save_driver(df, d) ==
    IF d \in DOMAIN df THEN df ELSE Put(df, d, [total_charges |-> 0, total_spent |-> 0])

RECURSIVE SaveDrivers(_, _)
SaveDrivers(df, ops) ==
    IF ops = <<>> THEN df
    ELSE SaveDrivers(IF Head(ops).op = "driver" THEN save_driver(df, Head(ops).id) ELSE df,
                     Tail(ops))

RECURSIVE SaveAll(_, _)
SaveAll(h, recs) ==
    IF recs = <<>> THEN h ELSE SaveAll(save_charging_session(h, Head(recs)), Tail(recs))
RECURSIVE StatsAll(_, _)
StatsAll(df, recs) ==
    IF recs = <<>> THEN df
    ELSE StatsAll(update_driver_stats(df, Head(recs).driver_id, Head(recs).total_amount),
                  Tail(recs))

PendingHist == Cardinality({t \in Threads : HistRecs(pend[t]) # <<>>})
HistRoom == Len(history) + PendingHist < MaxHist

Idle(c) == conn[c] = "open" /\ pend[c] = <<>>

core == <<charging_points, drivers, entity_to_socket, monitors, weather_alerts>>
store == <<history, driver_file>>
peers == <<monitor, checks, notices, auto, to_driver>>
wire == <<outbox, stream, buffer, dispatched, parsed, response, sending, written, peers>>

\* The handler returns to the read loop with `ops` left to run unlocked.
Leave(t, ops) == pend' = [pend EXCEPT ![t] = ops]

\* An exception escapes the handler: _handle_client closes the socket and ends.
Raise(c) == /\ conn' = [conn EXCEPT ![c] = "closed"]
            /\ pend' = pend

\* EVCPMonitor.__init__; central_socket is "open" until a send on it fails
new_monitor ==
    [engine_healthy |-> TRUE, consecutive_failures |-> 0, central_socket |-> "open"]

\* EVDriverAuto.__init__; `due` counts the calls of process_next_request
\* that run() and _schedule_next_request have started and not yet made
new_auto ==
    [status |-> "IDLE", current_cp |-> NONE, charging_requests |-> <<>>,
     current_request_number |-> 0, running |-> TRUE, due |-> 0]

InitPeers ==
    /\ monitor = new_monitor
    /\ checks = <<>>
    /\ notices = <<>>
    /\ auto = new_auto
    /\ to_driver = <<>>

\* EVCPEngine.__init__
new_engine ==
    [state |-> ACTIVATED, current_driver |-> NONE, has_session |-> FALSE,
     start_time |-> NoTime, kwh_needed |-> 0, kwh_delivered |-> 0]

\* ------------------------------------------------------------ Init
InitCentral ==
    /\ charging_points = <<>>
    /\ drivers = <<>>
    /\ entity_to_socket = <<>>
    /\ monitors = <<>>
    /\ weather_alerts = <<>>
    /\ history = <<>>
    /\ driver_file = <<>>
    /\ conn = [c \in Conns |-> "new"]
    /\ pend = [t \in Threads |-> <<>>]
    /\ sent = <<>>
    /\ now = 1
    /\ sessions_ended = 0
    /\ engine = new_engine
    /\ to_engine = <<>>
    /\ to_central = <<>>

\* No peer has written a byte and no query was made.
InitWire ==
    /\ outbox = <<>>
    /\ stream = <<>>
    /\ buffer = <<>>
    /\ dispatched = <<>>
    /\ parsed = <<>>
    /\ response = <<>>
    /\ sending = <<>>
    /\ written = <<>>
    /\ InitPeers

Init == InitCentral /\ InitWire

\* EVCentral.start: accept a connection and spawn its worker.
Accept(c) ==
    /\ conn[c] = "new"
    /\ \A b \in Conns : b < c => conn[b] # "new"
    /\ conn' = [conn EXCEPT ![c] = "open"]
    /\ sent' = <<>>
    /\ UNCHANGED <<core, store, pend, now, sessions_ended>>

\* A variant of the tear-down that ends the sessions of the lost peer.
Disconnect_rolling_back(c) ==
    /\ Idle(c)
    /\ conn' = [conn EXCEPT ![c] = "closed"]
    /\ charging_points' =
          [id \in DOMAIN charging_points |->
              IF \/ (id \in DOMAIN entity_to_socket /\ entity_to_socket[id] = c)
                 \/ (charging_points[id].current_driver \in DOMAIN entity_to_socket
                     /\ entity_to_socket[charging_points[id].current_driver] = c)
              THEN [reset_session(charging_points[id]) EXCEPT !.state = ACTIVATED]
              ELSE charging_points[id]]
    /\ sent' = <<>>
    /\ UNCHANGED <<drivers, entity_to_socket, monitors, weather_alerts, store, pend, now,
                   sessions_ended>>

\* EVCentral._handle_client: recv returns b'' and the worker tears down.
Disconnect(c) ==
    /\ Idle(c)
    /\ conn' = [conn EXCEPT ![c] = "closed"]
    /\ sent' = <<>>
    /\ UNCHANGED <<core, store, pend, now, sessions_ended>>

\* The part of a handler that runs after `with self.lock`.
Finish(t) ==
    /\ pend[t] # <<>>
    /\ history' = SaveAll(history, HistRecs(pend[t]))
    /\ driver_file' = SaveDrivers(StatsAll(driver_file, HistRecs(pend[t])), pend[t])
    /\ sent' = EmitAll(pend[t])
    /\ pend' = [pend EXCEPT ![t] = <<>>]
    /\ UNCHANGED <<core, conn, now, sessions_ended>>

\* ------------------------------------------------------------ REGISTER
handle_register_cp(c, id, price) ==
    /\ Idle(c)
    /\ \E location \in Locations :
          charging_points' = Put(charging_points, id, new_cp(ACTIVATED, location, price))
    /\ entity_to_socket' = Put(entity_to_socket, id, c)
    /\ Leave(c, <<SockOp(c, ACKNOWLEDGE(id, "OK"))>>)
    /\ sent' = <<>>
    /\ UNCHANGED <<drivers, monitors, weather_alerts, store, conn, now, sessions_ended>>

\* A variant of the registration that keeps the binding an id already has.
handle_register_driver_first_binding(c, id) ==
    /\ Idle(c)
    /\ drivers' = Put(drivers, id, new_driver)
    /\ entity_to_socket' = IF id \in DOMAIN entity_to_socket THEN entity_to_socket
                           ELSE Put(entity_to_socket, id, c)
    /\ Leave(c, <<DriverOp(id), SockOp(c, ACKNOWLEDGE(id, "OK"))>>)
    /\ sent' = <<>>
    /\ UNCHANGED <<charging_points, monitors, weather_alerts, store, conn, now,
                   sessions_ended>>

handle_register_driver(c, id) ==
    /\ Idle(c)
    /\ drivers' = Put(drivers, id, new_driver)
    /\ entity_to_socket' = Put(entity_to_socket, id, c)
    /\ Leave(c, <<DriverOp(id), SockOp(c, ACKNOWLEDGE(id, "OK"))>>)
    /\ sent' = <<>>
    /\ UNCHANGED <<charging_points, monitors, weather_alerts, store, conn, now,
                   sessions_ended>>

handle_register_monitor(c, cp) ==
    /\ Idle(c)
    /\ monitors' = Put(monitors, cp, c)
    /\ Leave(c, <<SockOp(c, ACKNOWLEDGE(cp, "MONITOR_OK"))>>)
    /\ sent' = <<>>
    /\ UNCHANGED <<charging_points, drivers, entity_to_socket, weather_alerts, store,
                   conn, now, sessions_ended>>

\* ------------------------------------------------------ REQUEST_CHARGE
\* Variants of the denial rule against which the properties below are tried.
deny_reason_unknown_only(cps, cp_id) ==
    IF cp_id \notin DOMAIN cps THEN "CP_NOT_FOUND" ELSE NONE

deny_reason_state_only(cps, cp_id) ==
    IF cp_id \notin DOMAIN cps THEN "CP_NOT_FOUND"
    ELSE IF cps[cp_id].state # ACTIVATED THEN "CP_STATE_" \o cps[cp_id].state
    ELSE NONE

deny_reason_driver_first(cps, cp_id) ==
    IF cp_id \notin DOMAIN cps THEN "CP_NOT_FOUND"
    ELSE IF cps[cp_id].current_driver # NONE THEN "CP_ALREADY_IN_USE"
    ELSE IF cps[cp_id].state # ACTIVATED THEN "CP_STATE_" \o cps[cp_id].state
    ELSE NONE

\* The reason of a denial, or NONE when the request is to be authorized.
deny_reason(cps, cp_id) ==
    IF cp_id \notin DOMAIN cps THEN "CP_NOT_FOUND"
    ELSE IF cps[cp_id].state # ACTIVATED THEN "CP_STATE_" \o cps[cp_id].state
    ELSE IF cps[cp_id].current_driver # NONE THEN "CP_ALREADY_IN_USE"
    ELSE NONE

authorize(cp, driver_id, kwh_needed) ==
    [cp EXCEPT !.state = SUPPLYING, !.current_driver = driver_id,
               !.session_start = now, !.kwh_delivered = 0, !.amount_euro = 0,
               !.kwh_needed = kwh_needed, !.charging_complete = FALSE]

handle_charge_request(c, driver_id, cp_id, kwh_needed) ==
    /\ Idle(c)
    /\ LET reason == deny_reason(charging_points, cp_id) IN
       IF reason # NONE
       THEN \* the DENY is written inside `with self.lock`
            /\ sent' = <<Wrote(c, DENY(driver_id, cp_id, reason), TRUE)>>
            /\ UNCHANGED <<charging_points, drivers, conn, pend>>
       ELSE /\ charging_points' = [charging_points EXCEPT
                                      ![cp_id] = authorize(@, driver_id, kwh_needed)]
            /\ sent' = <<>>
            /\ IF driver_id \in DOMAIN drivers
               THEN /\ drivers' = Put(drivers, driver_id,
                                      [status |-> "CHARGING", current_cp |-> cp_id])
                    /\ Leave(c, <<SockOp(c, AUTHORIZE_DRIVER(driver_id, cp_id, kwh_needed,
                                               charging_points[cp_id].price_per_kwh)),
                                  EntOp(cp_id, AUTHORIZE_CP(driver_id, cp_id, kwh_needed)),
                                  MonOp(cp_id, MONITOR_NOTE("DRIVER_START", cp_id, driver_id))>>)
                    /\ UNCHANGED conn
               ELSE \* self.drivers[driver_id] raises KeyError
                    /\ Raise(c)
                    /\ UNCHANGED drivers
    /\ UNCHANGED <<entity_to_socket, monitors, weather_alerts, store, now, sessions_ended>>

\* ------------------------------------------------------- SUPPLY_UPDATE
\* The counter is followed up to the energy of the session, and to MaxUnits
\* kWh at least.
Max(a, b) == IF a >= b THEN a ELSE b
counter_bound(cp) ==
    IF cp.kwh_needed = Absent THEN MaxUnits * TotalSeconds
    ELSE Max(MaxUnits * TotalSeconds, cp.kwh_needed)

\* A variant that notifies the monitor at every update past the request.
handle_supply_update_notifying_again(c, cp_id, kwh_increment, amount) ==
    /\ Idle(c)
    /\ cp_id \in DOMAIN charging_points =>
          charging_points[cp_id].kwh_delivered + kwh_increment
             <= counter_bound(charging_points[cp_id])
    /\ IF cp_id \in DOMAIN charging_points
       THEN LET cp == charging_points[cp_id]
                delivered == cp.kwh_delivered + kwh_increment
                completes == delivered >= get_kwh_needed(cp)
                driver_id == cp.current_driver
            IN /\ charging_points' = [charging_points EXCEPT ![cp_id] =
                       [cp EXCEPT !.kwh_delivered = delivered, !.amount_euro = amount,
                                  !.charging_complete = completes \/ @]]
               \* the monitor is notified inside `with self.lock`
               /\ sent' = IF completes /\ cp_id \in DOMAIN monitors
                             /\ Writable(monitors[cp_id])
                          THEN <<Wrote(monitors[cp_id],
                                       MONITOR_NOTE("CHARGING_COMPLETE", cp_id, driver_id),
                                       TRUE)>>
                          ELSE <<>>
               /\ Leave(c, IF driver_id # NONE
                           THEN <<EntOp(driver_id,
                                        SUPPLY_UPDATE(cp_id, kwh_increment, amount))>>
                           ELSE <<>>)
       ELSE /\ sent' = <<>>
            /\ UNCHANGED <<charging_points, pend>>
    /\ UNCHANGED <<drivers, entity_to_socket, monitors, weather_alerts, store, conn, now,
                   sessions_ended>>

handle_supply_update(c, cp_id, kwh_increment, amount) ==
    /\ Idle(c)
    /\ cp_id \in DOMAIN charging_points =>
          charging_points[cp_id].kwh_delivered + kwh_increment
             <= counter_bound(charging_points[cp_id])
    /\ IF cp_id \in DOMAIN charging_points
       THEN LET cp == charging_points[cp_id]
                delivered == cp.kwh_delivered + kwh_increment
                completes == delivered >= get_kwh_needed(cp) /\ ~cp.charging_complete
                driver_id == cp.current_driver
            IN /\ charging_points' = [charging_points EXCEPT ![cp_id] =
                       [cp EXCEPT !.kwh_delivered = delivered, !.amount_euro = amount,
                                  !.charging_complete = completes \/ @]]
               \* the monitor is notified inside `with self.lock`
               /\ sent' = IF completes /\ cp_id \in DOMAIN monitors
                             /\ Writable(monitors[cp_id])
                          THEN <<Wrote(monitors[cp_id],
                                       MONITOR_NOTE("CHARGING_COMPLETE", cp_id, driver_id),
                                       TRUE)>>
                          ELSE <<>>
               /\ Leave(c, IF driver_id # NONE
                           THEN <<EntOp(driver_id,
                                        SUPPLY_UPDATE(cp_id, kwh_increment, amount))>>
                           ELSE <<>>)
       ELSE /\ sent' = <<>>
            /\ UNCHANGED <<charging_points, pend>>
    /\ UNCHANGED <<drivers, entity_to_socket, monitors, weather_alerts, store, conn, now,
                   sessions_ended>>

\* ---------------------------------------------------------- SUPPLY_END
handle_supply_end(c, cp_id, driver_id, total_kwh, total_amount) ==
    /\ Idle(c)
    /\ HistRoom
    /\ LET known == cp_id \in DOMAIN charging_points
           duration_seconds == IF known THEN duration_of(charging_points[cp_id]) ELSE 0
       IN /\ charging_points' =
                IF known
                THEN [charging_points EXCEPT
                        ![cp_id] = [reset_session(@) EXCEPT !.state = ACTIVATED]]
                ELSE charging_points
          /\ drivers' = driver_idle(drivers, driver_id)
          /\ sessions_ended' =
                IF known /\ charging_points[cp_id].current_driver # NONE
                THEN sessions_ended + 1 ELSE sessions_ended
          /\ Leave(c, <<HistOp(cp_id, driver_id, total_kwh, total_amount, duration_seconds),
                        EntOp(driver_id, TICKET(cp_id, total_kwh, total_amount)),
                        MonOp(cp_id, MONITOR_NOTE("DRIVER_STOP", cp_id, driver_id))>>)
    /\ sent' = <<>>
    /\ UNCHANGED <<entity_to_socket, monitors, weather_alerts, store, conn, now>>

\* ---------------------------------------------------------- END_CHARGE
\* min(kwh_needed, (duration_seconds / total_seconds) * kwh_needed)
elapsed_kwh(kwh_needed, duration_seconds) ==
    Min(kwh_needed, (duration_seconds * kwh_needed) \div TotalSeconds)

\* A variant that does not compare the CP's current driver.
handle_end_charge_any_driver(c, driver_id, cp_id) ==
    /\ Idle(c)
    /\ HistRoom
    /\ IF cp_id \in DOMAIN charging_points
       THEN LET cp == charging_points[cp_id]
                duration_seconds == duration_of(cp)
                total_kwh == elapsed_kwh(get_kwh_needed(cp), duration_seconds)
                total_amount == total_kwh * cp.price_per_kwh
            IN /\ charging_points' = [charging_points EXCEPT
                        ![cp_id] = [reset_session(cp) EXCEPT !.state = ACTIVATED]]
               /\ drivers' = driver_idle(drivers, driver_id)
               /\ sessions_ended' = sessions_ended + 1
               /\ Leave(c, <<HistOp(cp_id, driver_id, total_kwh, total_amount,
                                    duration_seconds),
                             EntOp(cp_id, COMMAND("END_SUPPLY", cp_id)),
                             EntOp(driver_id, TICKET(cp_id, total_kwh, total_amount)),
                             MonOp(cp_id, MONITOR_NOTE("DRIVER_STOP", cp_id, driver_id))>>)
       ELSE UNCHANGED <<charging_points, drivers, sessions_ended, pend>>
    /\ sent' = <<>>
    /\ UNCHANGED <<entity_to_socket, monitors, weather_alerts, store, conn, now>>

handle_end_charge(c, driver_id, cp_id) ==
    /\ Idle(c)
    /\ HistRoom
    /\ IF cp_id \in DOMAIN charging_points
          /\ charging_points[cp_id].current_driver = driver_id
       THEN LET cp == charging_points[cp_id]
                duration_seconds == duration_of(cp)
                total_kwh == elapsed_kwh(get_kwh_needed(cp), duration_seconds)
                total_amount == total_kwh * cp.price_per_kwh
            IN /\ charging_points' = [charging_points EXCEPT
                        ![cp_id] = [reset_session(cp) EXCEPT !.state = ACTIVATED]]
               /\ drivers' = driver_idle(drivers, driver_id)
               /\ sessions_ended' = sessions_ended + 1
               /\ Leave(c, <<HistOp(cp_id, driver_id, total_kwh, total_amount,
                                    duration_seconds),
                             EntOp(cp_id, COMMAND("END_SUPPLY", cp_id)),
                             EntOp(driver_id, TICKET(cp_id, total_kwh, total_amount)),
                             MonOp(cp_id, MONITOR_NOTE("DRIVER_STOP", cp_id, driver_id))>>)
       ELSE UNCHANGED <<charging_points, drivers, sessions_ended, pend>>
    /\ sent' = <<>>
    /\ UNCHANGED <<entity_to_socket, monitors, weather_alerts, store, conn, now>>

\* ----------------------------------------------------------- HEARTBEAT
\* A variant that takes the reported state whatever the CP is doing.
handle_heartbeat_any_state(c, cp_id, state) ==
    /\ Idle(c)
    /\ charging_points' =
          IF cp_id \in DOMAIN charging_points
          THEN [charging_points EXCEPT ![cp_id].state = state]
          ELSE charging_points
    /\ sent' = <<>>
    /\ UNCHANGED <<drivers, entity_to_socket, monitors, weather_alerts, store, conn, pend,
                   now, sessions_ended>>

handle_heartbeat(c, cp_id, state) ==
    /\ Idle(c)
    /\ charging_points' =
          IF cp_id \in DOMAIN charging_points /\ charging_points[cp_id].state # SUPPLYING
          THEN [charging_points EXCEPT ![cp_id].state = state]
          ELSE charging_points
    /\ sent' = <<>>
    /\ UNCHANGED <<drivers, entity_to_socket, monitors, weather_alerts, store, conn, pend,
                   now, sessions_ended>>

\* --------------------------------------------------------------- FAULT
handle_fault(c, cp_id) ==
    /\ Idle(c)
    /\ HistRoom
    /\ IF cp_id \in DOMAIN charging_points
       THEN LET cp == charging_points[cp_id]
                driver_id == cp.current_driver
                ends == cp.state = SUPPLYING /\ driver_id # NONE
                rec == HistOp(cp_id, driver_id, cp.kwh_delivered, cp.amount_euro,
                              duration_of(cp)).rec
            IN /\ charging_points' = [charging_points EXCEPT ![cp_id] =
                       IF ends THEN [reset_session(cp) EXCEPT !.state = OUT_OF_ORDER]
                       ELSE [cp EXCEPT !.state = OUT_OF_ORDER]]
               \* the storage calls are made inside `with self.lock`
               /\ history' = IF ends THEN save_charging_session(history, rec) ELSE history
               /\ driver_file' = IF ends
                                 THEN update_driver_stats(driver_file, driver_id,
                                                          rec.total_amount)
                                 ELSE driver_file
               /\ drivers' = IF ends THEN driver_idle(drivers, driver_id) ELSE drivers
               /\ sessions_ended' = IF ends THEN sessions_ended + 1 ELSE sessions_ended
               /\ Leave(c, IF ends
                           THEN <<EntOp(driver_id,
                                        DENY(driver_id, cp_id, "CP_FAULT_EMERGENCY_STOP"))>>
                           ELSE <<>>)
       ELSE UNCHANGED <<charging_points, drivers, store, sessions_ended, pend>>
    /\ sent' = <<>>
    /\ UNCHANGED <<entity_to_socket, monitors, weather_alerts, conn, now>>

\* ------------------------------------------------------------ RECOVERY
handle_recovery(c, cp_id) ==
    /\ Idle(c)
    /\ charging_points' =
          IF cp_id \in DOMAIN charging_points
          THEN [charging_points EXCEPT ![cp_id].state = ACTIVATED]
          ELSE charging_points
    /\ sent' = <<>>
    /\ UNCHANGED <<drivers, entity_to_socket, monitors, weather_alerts, store, conn, pend,
                   now, sessions_ended>>

\* ------------------------------------------------ QUERY_AVAILABLE_CPS
\* The ids listed in the AVAILABLE_CPS answer.
available_cps_by_state(cps) == {id \in DOMAIN cps : cps[id].state = ACTIVATED}

available_cps(cps) ==
    {id \in DOMAIN cps : cps[id].state = ACTIVATED /\ cps[id].current_driver = NONE}

AVAILABLE_CPS(entries) == [type |-> "AVAILABLE_CPS", cps |-> entries]

\* EVCentral._handle_query_available_cps: the list is taken under the lock
\* and written to the requester after it.
handle_query_available_cps(c, driver_id) ==
    /\ Idle(c)
    /\ Leave(c, <<SockOp(c, AVAILABLE_CPS(
                     {[cp_id |-> id,
                       location |-> charging_points[id].location,
                       price_per_kwh |-> charging_points[id].price_per_kwh] :
                      id \in available_cps(charging_points)}))>>)
    /\ sent' = <<>>
    /\ UNCHANGED <<core, store, conn, now, sessions_ended>>

\* ------------------------------------------------ operator console
\* handle_admin_commands: stop <cp_id>
admin_stop(cp_id) ==
    /\ pend[AdminThread] = <<>>
    /\ HistRoom
    /\ IF cp_id \in DOMAIN charging_points
       THEN LET cp == charging_points[cp_id]
                driver_id == cp.current_driver
                ends == cp.state = SUPPLYING /\ driver_id # NONE
                total_kwh == cp.kwh_delivered
                total_amount == total_kwh * cp.price_per_kwh
                rec == HistOp(cp_id, driver_id, total_kwh, total_amount,
                              duration_of(cp)).rec
            IN /\ charging_points' = [charging_points EXCEPT ![cp_id] =
                       IF ends THEN [reset_session(cp) EXCEPT !.state = STOPPED]
                       ELSE [cp EXCEPT !.state = STOPPED]]
               /\ history' = IF ends THEN save_charging_session(history, rec) ELSE history
               /\ driver_file' = IF ends
                                 THEN update_driver_stats(driver_file, driver_id,
                                                          total_amount)
                                 ELSE driver_file
               /\ drivers' = IF ends THEN driver_idle(drivers, driver_id) ELSE drivers
               /\ sessions_ended' = IF ends THEN sessions_ended + 1 ELSE sessions_ended
               /\ Leave(AdminThread,
                        <<StopOp(cp_id, COMMAND("STOP_COMMAND", cp_id), ends, driver_id,
                                 TICKET(cp_id, total_kwh, total_amount))>>)
       ELSE UNCHANGED <<charging_points, drivers, store, sessions_ended, pend>>
    /\ sent' = <<>>
    /\ UNCHANGED <<entity_to_socket, monitors, weather_alerts, conn, now>>

\* handle_admin_commands: resume <cp_id>
admin_resume(cp_id) ==
    /\ pend[AdminThread] = <<>>
    /\ IF cp_id \in DOMAIN entity_to_socket
       THEN /\ charging_points' =
                  IF cp_id \in DOMAIN charging_points
                  THEN [charging_points EXCEPT ![cp_id].state = ACTIVATED]
                  ELSE charging_points
            /\ Leave(AdminThread, <<EntOp(cp_id, COMMAND("RESUME_COMMAND", cp_id))>>)
       ELSE UNCHANGED <<charging_points, pend>>
    /\ sent' = <<>>
    /\ UNCHANGED <<drivers, entity_to_socket, monitors, weather_alerts, store, conn, now,
                   sessions_ended>>

\* ------------------------------------------------------- weather hooks
\* POST /api/weather/alert: the whole of it runs inside `with self.lock`.
weather_alert(cp_id) ==
    /\ HistRoom
    /\ Len(weather_alerts) < MaxAlerts
    /\ cp_id \in DOMAIN charging_points
    /\ LET cp == charging_points[cp_id]
           driver_id == cp.current_driver
           ends == cp.state = SUPPLYING /\ driver_id # NONE
           rec == HistOp(cp_id, driver_id, cp.kwh_delivered, cp.amount_euro,
                         duration_of(cp)).rec
       IN /\ charging_points' = [charging_points EXCEPT ![cp_id] =
                  IF ends THEN [reset_session(cp) EXCEPT !.state = OUT_OF_ORDER]
                  ELSE [cp EXCEPT !.state = OUT_OF_ORDER]]
          /\ history' = IF ends THEN save_charging_session(history, rec) ELSE history
          /\ driver_file' = IF ends
                            THEN update_driver_stats(driver_file, driver_id, cp.amount_euro)
                            ELSE driver_file
          /\ sent' = IF ends /\ driver_id \in DOMAIN entity_to_socket
                        /\ Writable(entity_to_socket[driver_id])
                     THEN <<Wrote(entity_to_socket[driver_id],
                                  TICKET(cp_id, cp.kwh_delivered, cp.amount_euro), TRUE)>>
                     ELSE <<>>
          /\ drivers' = IF ends THEN driver_idle(drivers, driver_id) ELSE drivers
          /\ sessions_ended' = IF ends THEN sessions_ended + 1 ELSE sessions_ended
    /\ weather_alerts' = Append(weather_alerts, cp_id)
    /\ UNCHANGED <<entity_to_socket, monitors, conn, pend, now>>

\* A variant of the clear that does not look at the CP's state.
weather_clear_any_state(cp_id) ==
    /\ cp_id \in DOMAIN charging_points
    /\ charging_points' = [charging_points EXCEPT ![cp_id].state = ACTIVATED]
    /\ weather_alerts' = SelectSeq(weather_alerts, LAMBDA a : a # cp_id)
    /\ sent' = <<>>
    /\ UNCHANGED <<drivers, entity_to_socket, monitors, store, conn, pend, now,
                   sessions_ended>>

\* POST /api/weather/clear
weather_clear(cp_id) ==
    /\ cp_id \in DOMAIN charging_points
    /\ IF charging_points[cp_id].state = OUT_OF_ORDER
       THEN /\ charging_points' = [charging_points EXCEPT ![cp_id].state = ACTIVATED]
            /\ weather_alerts' = SelectSeq(weather_alerts, LAMBDA a : a # cp_id)
       ELSE UNCHANGED <<charging_points, weather_alerts>>
    /\ sent' = <<>>
    /\ UNCHANGED <<drivers, entity_to_socket, monitors, store, conn, pend, now,
                   sessions_ended>>

\* ------------------------------------------------------ registry poller
\* A variant that inserts what is new and removes nothing.
registry_poll_inserting_only(registry_cps, price) ==
    /\ \E location \in Locations :
          charging_points' =
             [id \in registry_cps \cup DOMAIN charging_points |->
                 IF id \in DOMAIN charging_points THEN charging_points[id]
                 ELSE new_cp(DISCONNECTED, location, price)]
    /\ sent' = <<>>
    /\ UNCHANGED <<drivers, entity_to_socket, monitors, weather_alerts, store, conn, pend,
                   now, sessions_ended>>

registry_poll(registry_cps, price) ==
    /\ \E location \in Locations :
          charging_points' =
             [id \in registry_cps |->
                 IF id \in DOMAIN charging_points THEN charging_points[id]
                 ELSE new_cp(DISCONNECTED, location, price)]
    /\ sent' = <<>>
    /\ UNCHANGED <<drivers, entity_to_socket, monitors, weather_alerts, store, conn, pend,
                   now, sessions_ended>>

\* One second passes.
Tick ==
    /\ now <= MaxTime
    /\ now' = now + 1
    /\ sent' = <<>>
    /\ UNCHANGED <<core, store, conn, pend, sessions_ended>>

\* ------------------------------------------------------ the CP engine
SUPPLY_END(cp, d, k, a) ==
    [type |-> "SUPPLY_END", cp |-> cp, driver |-> d, kwh |-> k, amount |-> a]

end_session(e, state) ==
    [e EXCEPT !.state = state, !.current_driver = NONE, !.has_session = FALSE,
              !.start_time = NoTime, !.kwh_needed = 0, !.kwh_delivered = 0]

\* EVCPEngine._handle_authorization
engine_handle_authorization(m) ==
    /\ engine' = IF engine.state = ACTIVATED
                 THEN [state |-> SUPPLYING, current_driver |-> m.driver,
                       has_session |-> TRUE, start_time |-> now,
                       kwh_needed |-> m.kwh, kwh_delivered |-> 0]
                 ELSE engine
    /\ UNCHANGED to_central

\* EVCPEngine._handle_stop_command
engine_handle_stop_command(cp_id, price) ==
    /\ engine' = IF engine.state = SUPPLYING /\ engine.has_session
                 THEN end_session(engine, STOPPED)
                 ELSE [engine EXCEPT !.state = STOPPED]
    /\ to_central' =
          IF engine.state = SUPPLYING /\ engine.has_session
          THEN Append(to_central, SUPPLY_END(cp_id, engine.current_driver,
                                             engine.kwh_delivered,
                                             engine.kwh_delivered * price))
          ELSE to_central

\* EVCPEngine._handle_resume_command
engine_handle_resume_command ==
    /\ engine' = [engine EXCEPT !.state = ACTIVATED]
    /\ UNCHANGED to_central

\* EVCPEngine._handle_end_supply
engine_handle_end_supply(cp_id, price) ==
    LET ends == engine.state = SUPPLYING /\ engine.has_session
        kwh_delivered == elapsed_kwh(engine.kwh_needed, now - engine.start_time)
    IN /\ engine' = IF ends THEN end_session(engine, ACTIVATED) ELSE engine
       /\ to_central' =
             IF ends
             THEN Append(to_central, SUPPLY_END(cp_id, engine.current_driver,
                                                kwh_delivered, kwh_delivered * price))
             ELSE to_central

\* EVCPEngine.send_status_updates: one pass of the loop.  The heartbeat is
\* always written; while a session charges, the session's counter advances
\* by kwh_needed / 14.0 and, unless it has reached kwh_needed, the increment
\* is written as a SUPPLY_UPDATE.
engine_send_status_updates(cp_id, price) ==
    LET charging == engine.state = SUPPLYING /\ engine.has_session
        kwh_this_second == engine.kwh_needed \div UpdatesPerCharge
        kwh_delivered == engine.kwh_delivered + kwh_this_second
        full == kwh_delivered >= engine.kwh_needed
    IN /\ engine' = IF charging
                    THEN [engine EXCEPT !.kwh_delivered =
                              IF full THEN engine.kwh_needed ELSE kwh_delivered]
                    ELSE engine
       /\ to_central' =
             to_central \o <<HEARTBEAT(cp_id, engine.state)>>
             \o (IF charging /\ ~full
                 THEN <<SUPPLY_UPDATE(cp_id, kwh_this_second, kwh_delivered * price)>>
                 ELSE <<>>)
       /\ Len(to_central') <= MaxInFlight
       /\ to_engine' = to_engine
       /\ sent' = <<>>
       /\ UNCHANGED <<core, store, conn, pend, now, sessions_ended>>

\* EVCPEngine._listen_central: the engine reads the next frame of Central.
engine_listen_central(cp_id, price) ==
    /\ to_engine # <<>>
    /\ LET m == Head(to_engine) IN
       CASE m.type = "AUTHORIZE" -> engine_handle_authorization(m)
         [] m.type = "STOP_COMMAND" -> engine_handle_stop_command(cp_id, price)
         [] m.type = "RESUME_COMMAND" -> engine_handle_resume_command
         [] m.type = "END_SUPPLY" -> engine_handle_end_supply(cp_id, price)
         [] OTHER -> UNCHANGED <<engine, to_central>>
    /\ to_engine' = Tail(to_engine)
    /\ sent' = <<>>
    /\ UNCHANGED <<core, store, conn, pend, now, sessions_ended>>

\* EVCentral._process_message on the engine's connection.
process_message(c) ==
    /\ to_central # <<>>
    /\ LET m == Head(to_central) IN
       CASE m.type = "SUPPLY_END" ->
               handle_supply_end(c, m.cp, m.driver, m.kwh, m.amount)
         [] m.type = "SUPPLY_UPDATE" -> handle_supply_update(c, m.cp, m.kwh, m.amount)
         [] m.type = "HEARTBEAT" -> handle_heartbeat(c, m.cp, m.state)
    /\ to_central' = Tail(to_central)

\* ------------------------------------------------- frames as received
\* A frame as Protocol.parse_message returns it: the type, then the other
\* fields.  A numeric field is the text the peer wrote, a sequence of
\* characters; the numbers written here are digit strings.
DigitChars == <<"0", "1", "2", "3", "4", "5", "6", "7", "8", "9">>
Digits == {DigitChars[i] : i \in 1..Len(DigitChars)}
DigitValue(ch) == (CHOOSE i \in 1..Len(DigitChars) : DigitChars[i] = ch) - 1

\* float(text) returns a number
is_float(text) == text # <<>> /\ \A i \in 1..Len(text) : text[i] \in Digits

\* float(text)
RECURSIVE float(_)
float(text) ==
    IF text = <<>> THEN 0
    ELSE float(SubSeq(text, 1, Len(text) - 1)) * Len(DigitChars) + DigitValue(text[Len(text)])

Frame(type, args) == [type |-> type, args |-> args]

\* The frame is dropped: the handler returns, or no handler matches.
Ignore ==
    /\ sent' = <<>>
    /\ UNCHANGED <<core, store, conn, pend, now, sessions_ended>>

\* float() raises ValueError before the handler has done anything; the
\* exception ends the worker's loop.
ValueError(c) ==
    /\ Raise(c)
    /\ sent' = <<>>
    /\ UNCHANGED <<core, store, now, sessions_ended>>

\* EVCentral._process_message and the field checks that open each handler.
receive_frame(c, f) ==
    /\ Idle(c)
    /\ CASE f.type = "REQUEST_CHARGE" ->
               IF Len(f.args) < 3 THEN Ignore
               ELSE IF ~is_float(f.args[3]) THEN ValueError(c)
               ELSE handle_charge_request(c, f.args[1], f.args[2], float(f.args[3]))
         [] f.type = "SUPPLY_END" ->
               IF Len(f.args) < 4 THEN Ignore
               ELSE IF ~is_float(f.args[3]) \/ ~is_float(f.args[4]) THEN ValueError(c)
               ELSE handle_supply_end(c, f.args[1], f.args[2], float(f.args[3]),
                                      float(f.args[4]))
         [] OTHER -> Ignore

\* ------------------------------------------------- Protocol: the bytes
\* Text is a sequence of code points, a byte string a sequence of 0..255.
STX == 2
ETX == 3
\* '#'
DELIMITER == 35

\* a ^ b on bytes
RECURSIVE Xor(_, _)
Xor(a, b) ==
    IF a = 0 THEN b
    ELSE IF b = 0 THEN a
    ELSE (((a % 2) + (b % 2)) % 2) + 2 * Xor(a \div 2, b \div 2)

\* Protocol.calculate_lrc: XOR of all the bytes
RECURSIVE calculate_lrc(_)
calculate_lrc(data) ==
    IF data = <<>> THEN 0 ELSE Xor(Head(data), calculate_lrc(Tail(data)))

\* str.encode(): UTF-8, for code points below 2048
RECURSIVE str_encode(_)
str_encode(text) ==
    IF text = <<>> THEN <<>>
    ELSE (IF Head(text) < 128 THEN <<Head(text)>>
          ELSE <<192 + (Head(text) \div 64), 128 + (Head(text) % 64)>>)
         \o str_encode(Tail(text))

\* bytes.decode('utf-8'): ok is FALSE where Python raises UnicodeDecodeError.
\* Lead bytes of three- and four-byte sequences do not occur in the runs.
RECURSIVE bytes_decode(_)
bytes_decode(bs) ==
    IF bs = <<>> THEN [ok |-> TRUE, text |-> <<>>]
    ELSE IF Head(bs) < 128
    THEN LET r == bytes_decode(Tail(bs))
         IN  [ok |-> r.ok, text |-> <<Head(bs)>> \o r.text]
    ELSE IF /\ Head(bs) >= 194
            /\ Head(bs) <= 223
            /\ Len(bs) >= 2
            /\ bs[2] >= 128
            /\ bs[2] <= 191
    THEN LET r == bytes_decode(SubSeq(bs, 3, Len(bs)))
         IN  [ok |-> r.ok,
              text |-> <<(Head(bs) - 192) * 64 + (bs[2] - 128)>> \o r.text]
    ELSE [ok |-> FALSE, text |-> <<>>]

\* The first position from `start` on that holds x, or 0 (bytes.index raising
\* ValueError, bytes.find and str.find returning -1).
IndexFrom(s, x, start) ==
    IF \E i \in start..Len(s) : s[i] = x
    THEN CHOOSE i \in start..Len(s) :
             s[i] = x /\ \A j \in start..(i - 1) : s[j] # x
    ELSE 0

\* '#'.join(str(f) for f in fields)
RECURSIVE build_message(_)
build_message(fields) ==
    IF fields = <<>> THEN <<>>
    ELSE IF Len(fields) = 1 THEN fields[1]
    ELSE fields[1] \o <<DELIMITER>> \o build_message(Tail(fields))

\* message.split('#')
RECURSIVE parse_message(_)
parse_message(message) ==
    LET i == IndexFrom(message, DELIMITER, 1)
    IN  IF i = 0 THEN <<message>>
        ELSE <<SubSeq(message, 1, i - 1)>>
             \o parse_message(SubSeq(message, i + 1, Len(message)))

\* Protocol.encode
encode(message) ==
    LET data == <<STX>> \o str_encode(message) \o <<ETX>>
    IN  data \o <<calculate_lrc(data)>>

\* (None, False)
Invalid == [message |-> <<>>, is_valid |-> FALSE]

\* Protocol.decode
decode(raw_data) ==
    IF Len(raw_data) < 4 THEN Invalid
    ELSE IF raw_data[1] # STX THEN Invalid
    ELSE LET etx_index == IndexFrom(raw_data, ETX, 2)
         IN  IF etx_index = 0 THEN Invalid
             ELSE IF etx_index + 1 > Len(raw_data) THEN Invalid
             ELSE IF calculate_lrc(SubSeq(raw_data, 1, etx_index))
                         # raw_data[etx_index + 1]
             THEN Invalid
             ELSE LET m == bytes_decode(SubSeq(raw_data, 2, etx_index - 1))
                  IN  IF m.ok THEN [message |-> m.text, is_valid |-> TRUE]
                      ELSE Invalid

\* The inner loop of _handle_client: while the buffer decodes, cut the frame
\* off its head and hand the message to _process_message.
RECURSIVE extract(_)
extract(buf) ==
    IF Len(buf) > 0 /\ decode(buf).is_valid
    THEN LET etx_pos == IndexFrom(buf, ETX, 1)
             rest == extract(SubSeq(buf, etx_pos + 2, Len(buf)))
         IN  [buffer |-> rest.buffer,
              messages |-> <<decode(buf).message>> \o rest.messages]
    ELSE [buffer |-> buf, messages |-> <<>>]

\* Central does what it did: the wire's messages are of no type it handles.
NoCentral ==
    UNCHANGED <<core, store, pend, now, sessions_ended, engine, to_engine,
                to_central>>

\* One iteration of _handle_client's read loop on connection c: recv returns
\* the next n bytes of the peer.  The types of the messages on the wire are
\* none that _process_message has a branch for, so dispatching changes no
\* table.
recv(c, n) ==
    /\ Idle(c)
    /\ n >= 1
    /\ n <= Len(stream)
    /\ LET r == extract(buffer \o SubSeq(stream, 1, n))
       IN  /\ buffer' = r.buffer
           /\ dispatched' = dispatched \o r.messages
    /\ stream' = SubSeq(stream, n + 1, Len(stream))
    /\ sent' = <<>>
    /\ UNCHANGED <<conn, outbox, parsed, response, sending, written, peers>>
    /\ NoCentral

\* recv returns b'': the peer closed after its last byte was read.
recv_eof(c) ==
    /\ stream = <<>>
    /\ Disconnect(c)
    /\ UNCHANGED <<engine, to_engine, to_central, wire>>

\* A peer builds, encodes and decodes one message, then parses the payload.
round_trip ==
    /\ parsed = <<>>
    /\ Len(outbox) = 1
    /\ LET d == decode(encode(build_message(outbox[1])))
       IN  parsed' = <<[is_valid |-> d.is_valid,
                        fields |-> IF d.is_valid THEN parse_message(d.message)
                                   ELSE <<>>]>>
    /\ sent' = <<>>
    /\ UNCHANGED <<conn, outbox, stream, buffer, dispatched, response, sending, written,
                   peers>>
    /\ NoCentral

\* ------------------------------------------------------- /api/history
\* lines[i:] as Python slices: a negative i counts from the end.
slice_from(lines, i) ==
    LET start == IF i < 0 THEN (IF Len(lines) + i < 0 THEN 0 ELSE Len(lines) + i)
                 ELSE Min(i, Len(lines))
    IN  SubSeq(lines, start + 1, Len(lines))

\* FileStorage.get_recent_history: the sessions of lines[-limit:]
get_recent_history(lines, limit) == slice_from(lines, 0 - limit)

\* GET /api/history?limit=N
get_history(limit) ==
    /\ response' = <<get_recent_history(history, limit)>>
    /\ sent' = <<>>
    /\ UNCHANGED <<core, store, conn, pend, now, sessions_ended>>
    /\ UNCHANGED <<engine, to_engine, to_central, outbox, stream, buffer, dispatched,
                   parsed, sending, written, peers>>

\* ------------------------------------------------------------- Next
\* The peers of Central.  Connection 1 carries the engine of c1, connection 2
\* the monitor of c1 (or the engine of c2), connections 3 and 4 the clients
\* of d1 and d2.
EngineConn == CHOOSE c \in Conns : \A b \in Conns : c <= b
MonitorConn == EngineConn + 1
DriverConns == Conns \ {EngineConn, MonitorConn}
FirstDriverConn == CHOOSE c \in DriverConns : \A b \in DriverConns : c <= b
DriverOf(c) == IF c = FirstDriverConn THEN "d1" ELSE "d2"
EngineDrivers == {"d1"}

\* The engine is not part of the run: the frames of c1 are the environment's.
NoEngine == UNCHANGED <<engine, to_engine, to_central, wire>>

AcceptAny == \E c \in Conns : Accept(c) /\ NoEngine
FinishAny == \E t \in Threads : Finish(t) /\ NoEngine
RegisterCP == NoEngine /\ \E p \in Prices : handle_register_cp(EngineConn, "c1", p)
RegisterMonitor == NoEngine /\ handle_register_monitor(MonitorConn, "c1")
RegisterDriver ==
    NoEngine /\ \E c \in DriverConns : handle_register_driver(c, DriverOf(c))
RequestCharge ==
    /\ NoEngine
    /\ \E c \in DriverConns, k \in KwhRequests :
          handle_charge_request(c, DriverOf(c), "c1", k)
SupplyEnd ==
    /\ NoEngine
    /\ \E d \in EngineDrivers, k \in Increments, a \in Amounts :
          handle_supply_end(EngineConn, "c1", d, k, a)
Fault == NoEngine /\ handle_fault(MonitorConn, "c1")
Recovery == NoEngine /\ handle_recovery(MonitorConn, "c1")

\* Two drivers compete for c1 while its engine and monitor report.
Next ==
    \/ AcceptAny
    \/ FinishAny
    \/ RegisterCP
    \/ RegisterDriver
    \/ RequestCharge
    \/ SupplyEnd
    \/ Fault
    \/ Recovery

Spec == Init /\ [][Next]_vars

\* One driver's sessions on c1, with the monitor of c1 registered.
AcceptSession == \E c \in Conns \ {FirstDriverConn + 1} : Accept(c) /\ NoEngine
RegisterFirstDriver == NoEngine /\ handle_register_driver(FirstDriverConn, "d1")
FirstDriverRequest ==
    /\ NoEngine
    /\ \E k \in KwhRequests : handle_charge_request(FirstDriverConn, "d1", "c1", k)

NextSession ==
    \/ AcceptSession
    \/ FinishAny
    \/ RegisterCP
    \/ RegisterMonitor
    \/ RegisterFirstDriver
    \/ FirstDriverRequest
    \/ SupplyEnd
    \/ Fault
    \/ Recovery

SpecSession == Init /\ [][NextSession]_vars

\* One driver and two CPs, c1 on connection 1 and c2 on connection 2.
CPConn(cp_id) == IF cp_id = "c1" THEN EngineConn ELSE MonitorConn

RegisterEitherCP ==
    NoEngine /\ \E id \in CPIds, p \in Prices : handle_register_cp(CPConn(id), id, p)
RequestEitherCP ==
    /\ NoEngine
    /\ \E id \in CPIds, k \in KwhRequests :
          handle_charge_request(FirstDriverConn, "d1", id, k)
SupplyEndEitherCP ==
    /\ NoEngine
    /\ \E id \in CPIds, k \in Increments, a \in Amounts :
          handle_supply_end(CPConn(id), id, "d1", k, a)

NextTwoCps ==
    \/ AcceptSession
    \/ FinishAny
    \/ RegisterEitherCP
    \/ RegisterFirstDriver
    \/ RequestEitherCP
    \/ SupplyEndEitherCP

SpecTwoCps == Init /\ [][NextTwoCps]_vars

\* Central with the engine of c1 behind connection 1 and d1 behind its
\* client: every frame Central writes to connection 1 is read by the engine,
\* and every SUPPLY_END of the engine is read by Central.
FramesTo(c, ws) == SelectSeq(ws, LAMBDA w : w.to = c)
Deliver ==
    /\ to_engine' = to_engine \o [i \in 1..Len(FramesTo(EngineConn, sent')) |->
                                     FramesTo(EngineConn, sent')[i].msg]
    /\ Len(to_engine') <= MaxQueue
    /\ UNCHANGED <<engine, to_central, wire>>

EngineConnects ==
    /\ "c1" \notin DOMAIN charging_points
    /\ \E p \in Prices : handle_register_cp(EngineConn, "c1", p)
    /\ NoEngine
DriverRegisters == handle_register_driver(FirstDriverConn, "d1") /\ NoEngine
DriverRequests ==
    /\ \E k \in KwhRequests : handle_charge_request(FirstDriverConn, "d1", "c1", k)
    /\ NoEngine
DriverEndsCharge == handle_end_charge(FirstDriverConn, "d1", "c1") /\ NoEngine
OperatorStops == admin_stop("c1") /\ NoEngine
OperatorResumes == admin_resume("c1") /\ NoEngine
CentralFinishes == \E t \in Threads : Finish(t) /\ Deliver
CentralReadsEngine ==
    process_message(EngineConn) /\ UNCHANGED <<engine, to_engine, wire>>
EngineReads ==
    /\ "c1" \in DOMAIN charging_points
    /\ engine_listen_central("c1", charging_points["c1"].price_per_kwh)
    /\ UNCHANGED wire

NextEngine ==
    \/ AcceptSession
    \/ EngineConnects
    \/ DriverRegisters
    \/ DriverRequests
    \/ DriverEndsCharge
    \/ OperatorStops
    \/ OperatorResumes
    \/ CentralFinishes
    \/ CentralReadsEngine
    \/ EngineReads

SpecEngine == Init /\ [][NextEngine]_vars

\* The life of c1 with one driver: its engine's heartbeats and updates, its
\* monitor's FAULT and RECOVERY.
Heartbeat ==
    NoEngine /\ \E st \in HeartbeatStates : handle_heartbeat(EngineConn, "c1", st)
SupplyUpdate ==
    /\ NoEngine
    /\ \E k \in Increments, a \in Amounts : handle_supply_update(EngineConn, "c1", k, a)
WeatherAlert == NoEngine /\ weather_alert("c1")
WeatherClear == NoEngine /\ weather_clear("c1")

NextLifecycle ==
    \/ AcceptSession
    \/ FinishAny
    \/ RegisterCP
    \/ RegisterFirstDriver
    \/ FirstDriverRequest
    \/ Heartbeat
    \/ SupplyUpdate
    \/ Fault
    \/ Recovery

SpecLifecycle == Init /\ [][NextLifecycle]_vars

\* c1 under the weather service and the operator console.
NextWeather ==
    \/ AcceptSession
    \/ FinishAny
    \/ RegisterCP
    \/ RegisterFirstDriver
    \/ FirstDriverRequest
    \/ WeatherAlert
    \/ WeatherClear
    \/ OperatorStops
    \/ OperatorResumes
    \/ Recovery

SpecWeather == Init /\ [][NextWeather]_vars

\* Connections that come and go.  The engine of c1 connects on connection 1
\* and, after a reconnect, on connection 2; the client of d1 on connection 3
\* and then on connection 4.  Each registers as soon as it has connected, a
\* reconnecting peer while the id is still bound to its first connection.
SecondEngineConn == EngineConn + 1
SecondDriverConn == FirstDriverConn + 1

MayRegister(id, first, c) ==
    \/ c = first /\ id \notin DOMAIN entity_to_socket
    \/ c # first /\ id \in DOMAIN entity_to_socket /\ entity_to_socket[id] = first

Hangup == \E c \in Conns : Disconnect(c) /\ NoEngine
EngineRegisters ==
    /\ NoEngine
    /\ \E c \in {EngineConn, SecondEngineConn}, p \in Prices :
          MayRegister("c1", EngineConn, c) /\ handle_register_cp(c, "c1", p)
ClientRegisters ==
    /\ NoEngine
    /\ \E c \in {FirstDriverConn, SecondDriverConn} :
          MayRegister("d1", FirstDriverConn, c) /\ handle_register_driver(c, "d1")
ClientRequests ==
    /\ NoEngine
    /\ "d1" \in DOMAIN drivers
    /\ \E c \in {FirstDriverConn, SecondDriverConn}, k \in KwhRequests :
          handle_charge_request(c, "d1", "c1", k)
EngineEndsSupply ==
    /\ NoEngine
    /\ \E c \in {EngineConn, SecondEngineConn}, k \in Increments, a \in Amounts :
          handle_supply_end(c, "c1", "d1", k, a)

NextTeardown ==
    \/ AcceptAny
    \/ FinishAny
    \/ Hangup
    \/ EngineRegisters
    \/ ClientRegisters
    \/ ClientRequests
    \/ EngineEndsSupply

SpecTeardown == Init /\ [][NextTeardown]_vars

\* The operator stops c1 during a session of d1, the engine's connection
\* possibly lost by then.
EngineHangsUp == Disconnect(EngineConn) /\ NoEngine

NextStop ==
    \/ AcceptSession
    \/ FinishAny
    \/ EngineHangsUp
    \/ RegisterCP
    \/ RegisterFirstDriver
    \/ FirstDriverRequest
    \/ SupplyUpdate
    \/ OperatorStops

SpecStop == Init /\ [][NextStop]_vars

\* The frames of d1's client and of the engine of c1 as they arrive, well
\* formed or not.
GoodNumber == <<"1", "4">>
BadNumber == <<"x">>
ClientFrames ==
    {Frame("REQUEST_CHARGE", <<"d1", "c1", GoodNumber>>),
     Frame("REQUEST_CHARGE", <<"d1", "c1", BadNumber>>),
     Frame("REQUEST_CHARGE", <<"d1", "c1">>),
     Frame("BOGUS", <<"d1">>)}
EngineFrames ==
    {Frame("SUPPLY_END", <<"c1", "d1", GoodNumber, GoodNumber>>),
     Frame("SUPPLY_END", <<"c1", "d1", GoodNumber, BadNumber>>),
     Frame("SUPPLY_END", <<"c1", "d1", GoodNumber>>)}

\* A frame with too few fields, of an unknown type, or with a numeric field
\* that is no number.
Malformed(f) ==
    \/ f.type \notin {"REQUEST_CHARGE", "SUPPLY_END"}
    \/ f.type = "REQUEST_CHARGE" /\ (Len(f.args) < 3 \/ ~is_float(f.args[3]))
    \/ f.type = "SUPPLY_END"
          /\ (Len(f.args) < 4 \/ ~is_float(f.args[3]) \/ ~is_float(f.args[4]))

ClientSends == NoEngine /\ \E f \in ClientFrames : receive_frame(FirstDriverConn, f)
EngineSends == NoEngine /\ \E f \in EngineFrames : receive_frame(EngineConn, f)

NextFrames ==
    \/ AcceptSession
    \/ FinishAny
    \/ RegisterCP
    \/ RegisterFirstDriver
    \/ ClientSends
    \/ EngineSends

SpecFrames == Init /\ [][NextFrames]_vars

\* The codec alone: a peer builds one message from a field list, encodes it,
\* and the receiver decodes the frame and parses its payload.
MaxFields == 3
\* '', 'A', 'é' and 'Aé'
Texts == {<<>>, <<65>>, <<233>>, <<65, 233>>}
RECURSIVE FieldListsUpTo(_)
FieldListsUpTo(n) ==
    IF n = 0 THEN {<<>>}
    ELSE LET S == FieldListsUpTo(n - 1)
         IN  S \cup {Append(L, t) : L \in {X \in S : Len(X) = n - 1}, t \in Texts}
FieldLists == FieldListsUpTo(MaxFields)

InitCodec ==
    /\ InitCentral
    /\ outbox \in {<<L>> : L \in FieldLists}
    /\ stream = <<>>
    /\ buffer = <<>>
    /\ dispatched = <<>>
    /\ parsed = <<>>
    /\ response = <<>>
    /\ sending = <<>>
    /\ written = <<>>
    /\ InitPeers

RoundTrip == round_trip

NextCodec == RoundTrip

SpecCodec == InitCodec /\ [][NextCodec]_vars

\* One connection's worker reading what its peer wrote: the frames of up to
\* MaxFrames messages, returned by recv in chunks of any size.
MaxFrames == 2
PeerConn == EngineConn
SentLists == {<<>>, <<<<65>>>>, <<<<233>>>>, <<<<65>>, <<233>>>>, <<<<>>, <<65>>>>}
RECURSIVE OutboxesUpTo(_)
OutboxesUpTo(n) ==
    IF n = 0 THEN {<<>>}
    ELSE LET S == OutboxesUpTo(n - 1)
         IN  S \cup {Append(o, L) : o \in {X \in S : Len(X) = n - 1}, L \in SentLists}
Outboxes == OutboxesUpTo(MaxFrames)

\* The frames of the messages, concatenated.
frames_of(out) == Flatten([i \in 1..Len(out) |-> encode(build_message(out[i]))])

InitStream ==
    /\ InitCentral
    /\ outbox \in Outboxes
    /\ stream = frames_of(outbox)
    /\ buffer = <<>>
    /\ dispatched = <<>>
    /\ parsed = <<>>
    /\ response = <<>>
    /\ sending = <<>>
    /\ written = <<>>
    /\ InitPeers

AcceptPeer == Accept(PeerConn) /\ NoEngine
Recv == \E n \in 1..Len(stream) : recv(PeerConn, n)
PeerCloses == recv_eof(PeerConn)

NextStream ==
    \/ AcceptPeer
    \/ Recv
    \/ PeerCloses

SpecStream == InitStream /\ [][NextStream]_vars

\* The same worker when the peer's bytes open with something that is no
\* frame: a byte before the first STX, or a frame whose LRC is wrong.  The
\* worker reads whatever has arrived; the peer closes when it chooses to.
corrupt(frame) == [frame EXCEPT ![Len(frame)] = Xor(frame[Len(frame)], 1)]
BadHeads == {<<65>>, corrupt(encode(<<65>>))}

InitGarbage ==
    /\ InitCentral
    /\ outbox \in Outboxes \ {<<>>}
    /\ \E head \in BadHeads : stream = head \o frames_of(outbox)
    /\ buffer = <<>>
    /\ dispatched = <<>>
    /\ parsed = <<>>
    /\ response = <<>>
    /\ sending = <<>>
    /\ written = <<>>
    /\ InitPeers

SpecGarbage ==
    InitGarbage /\ [][NextStream]_vars /\ WF_vars(AcceptPeer) /\ WF_vars(Recv)

\* Central, the engine of c1 and the client of d1, with the engine's status
\* loop running: its heartbeats and SUPPLY_UPDATEs wait in the socket until
\* Central's worker reads them, while d1 ends sessions and asks for new ones.
SessionRequests == {14, 140}
DriverRequestsEither ==
    /\ \E k \in SessionRequests : handle_charge_request(FirstDriverConn, "d1", "c1", k)
    /\ NoEngine
EngineReports ==
    /\ "c1" \in DOMAIN charging_points
    /\ engine_send_status_updates("c1", charging_points["c1"].price_per_kwh)
    /\ UNCHANGED wire

NextSupply ==
    \/ AcceptSession
    \/ EngineConnects
    \/ DriverRegisters
    \/ DriverRequestsEither
    \/ DriverEndsCharge
    \/ CentralFinishes
    \/ CentralReadsEngine
    \/ EngineReads
    \/ EngineReports

SpecSupply == Init /\ [][NextSupply]_vars

\* One driver's session on c1 with the monitor of c1 registered, the engine
\* reporting energy until and past the requested amount.
NextCompletion ==
    \/ AcceptSession
    \/ FinishAny
    \/ RegisterCP
    \/ RegisterMonitor
    \/ RegisterFirstDriver
    \/ FirstDriverRequest
    \/ SupplyUpdate
    \/ SupplyEnd

SpecCompletion == Init /\ [][NextCompletion]_vars

\* Two drivers and c1: either driver may send END_CHARGE for c1 or for c2,
\* which never registers.
EndCharge ==
    /\ NoEngine
    /\ \E c \in DriverConns, id \in CPIds : handle_end_charge(c, DriverOf(c), id)

NextEndCharge ==
    \/ AcceptAny
    \/ FinishAny
    \/ RegisterCP
    \/ RegisterDriver
    \/ RequestCharge
    \/ EndCharge

SpecEndCharge == Init /\ [][NextEndCharge]_vars

\* Central learns its CPs from the registry: a poll inserts them in state
\* Disconnected.  Frames, operator commands and weather hooks then arrive for
\* c1, whose engine may or may not have registered.
RegistryPoll ==
    /\ NoEngine
    /\ \E registry_cps \in SUBSET CPIds, p \in Prices : registry_poll(registry_cps, p)

NextRegistry ==
    \/ AcceptSession
    \/ FinishAny
    \/ RegistryPoll
    \/ RegisterCP
    \/ RegisterFirstDriver
    \/ FirstDriverRequest
    \/ Heartbeat
    \/ Recovery
    \/ OperatorStops
    \/ OperatorResumes
    \/ WeatherAlert
    \/ WeatherClear

SpecRegistry == Init /\ [][NextRegistry]_vars

\* Sessions of d1 on c1 end by SUPPLY_END or by END_CHARGE, leaving records
\* that differ, while the history is queried with any limit.
Limits == 0..(MaxHist + 1)
GetHistory == \E limit \in Limits : get_history(limit)

NextHistory ==
    \/ AcceptSession
    \/ FinishAny
    \/ RegisterCP
    \/ RegisterFirstDriver
    \/ FirstDriverRequest
    \/ SupplyEnd
    \/ DriverEndsCharge
    \/ GetHistory

SpecHistory == Init /\ [][NextHistory]_vars

\* d1 asks which CPs are available while c1 and c2 register, are taken and
\* released; a RECOVERY can leave c1 Activated with its driver still set.
Query == NoEngine /\ handle_query_available_cps(FirstDriverConn, "d1")

NextQuery ==
    \/ AcceptSession
    \/ FinishAny
    \/ RegisterEitherCP
    \/ RegisterFirstDriver
    \/ RequestEitherCP
    \/ SupplyEndEitherCP
    \/ Recovery
    \/ Query

SpecQuery == Init /\ [][NextQuery]_vars

\* --------------------------------------------------- weather requests
\* The body of a POST as request.get_json() returns it: nothing, a JSON
\* object (its keys in `items`, the value of its cp_id in `cp_id`), a JSON
\* array of strings (its elements in `items`) or a JSON number.
Json(kind, items, cp_id, num) ==
    [kind |-> kind, items |-> items, cp_id |-> cp_id, num |-> num]
JsonBodies ==
    { Json("null", {}, NONE, 0),
      Json("object", {}, NONE, 0),
      Json("object", {"location"}, NONE, 0),
      Json("object", {"cp_id"}, "c1", 0),
      Json("object", {"cp_id", "location"}, "c2", 0),
      Json("array", {"cp_id"}, NONE, 0),
      Json("number", {}, NONE, 0),
      Json("number", {}, NONE, 5) }

\* bool(data)
truthy(data) ==
    CASE data.kind = "null" -> FALSE
      [] data.kind = "number" -> data.num # 0
      [] OTHER -> data.items # {}

\* What `if not data or 'cp_id' not in data` followed by data['cp_id'] does:
\* "missing" takes the 400 branch, "TypeError" is raised by `in` on a number
\* and by the subscript on an array, "present" goes on with the cp_id.
cp_id_of(data) ==
    CASE ~truthy(data) -> "missing"
      [] data.kind = "number" -> "TypeError"
      [] "cp_id" \notin data.items -> "missing"
      [] data.kind = "array" -> "TypeError"
      [] OTHER -> "present"

jsonify(status) == <<[status |-> status]>>

\* The part of either request that ends without touching Central's records:
\* 400, the 500 Flask makes of an exception, or 404.
early_return(data) ==
    CASE cp_id_of(data) = "missing" -> jsonify(400)
      [] cp_id_of(data) = "TypeError" -> jsonify(500)
      [] data.cp_id \notin DOMAIN charging_points -> jsonify(404)
      [] OTHER -> <<>>

UnusedByRequests ==
    UNCHANGED <<engine, to_engine, to_central, outbox, stream, buffer, dispatched,
                parsed, sending, written, peers>>

\* POST /api/weather/alert with body `data`
weather_alert_request(data) ==
    /\ UnusedByRequests
    /\ IF early_return(data) # <<>>
       THEN /\ response' = early_return(data)
            /\ sent' = <<>>
            /\ UNCHANGED <<core, store, conn, pend, now, sessions_ended>>
       ELSE /\ weather_alert(data.cp_id)
            /\ response' = jsonify(200)

\* POST /api/weather/clear with body `data`
weather_clear_request(data) ==
    /\ UnusedByRequests
    /\ IF early_return(data) # <<>>
       THEN /\ response' = early_return(data)
            /\ sent' = <<>>
            /\ UNCHANGED <<core, store, conn, pend, now, sessions_ended>>
       ELSE /\ weather_clear(data.cp_id)
            /\ response' = jsonify(200)

\* The weather service posts alerts and clears with any body while d1 has
\* sessions on c1; c2 is never registered.
AlertRequest == \E data \in JsonBodies : weather_alert_request(data)
ClearRequest == \E data \in JsonBodies : weather_clear_request(data)

NextWeatherApi ==
    \/ AcceptSession
    \/ FinishAny
    \/ RegisterCP
    \/ RegisterFirstDriver
    \/ FirstDriverRequest
    \/ AlertRequest
    \/ ClearRequest

SpecWeatherApi == Init /\ [][NextWeatherApi]_vars

\* d1 charges on c1 while the clock runs and the engine reports increments,
\* and unplugs at any moment.
ClockTicks == NoEngine /\ Tick

NextBilling ==
    \/ AcceptSession
    \/ FinishAny
    \/ RegisterCP
    \/ RegisterFirstDriver
    \/ FirstDriverRequest
    \/ SupplyUpdate
    \/ ClockTicks
    \/ DriverEndsCharge

SpecBilling == Init /\ [][NextBilling]_vars

\* ------------------------------------------------- concurrent writes
\* Two workers are each about to write one frame to the connection of d1:
\* the worker of c1's engine forwards a SUPPLY_UPDATE and d1's own worker
\* sends a TICKET, both after `with self.lock`.  No lock is held around a
\* write.  socket.send hands the bytes to the kernel, which takes them in one
\* piece or, when its buffer is full, in several, releasing the socket while
\* it waits; send may also return after a first piece, and the count it
\* returns is not looked at.  MaxWaits bounds the waits of one send.
MaxWaits == 1
Writers == {EngineConn, FirstDriverConn}
WriteLists == {<<<<65>>>>, <<<<65>>, <<233>>>>}
FrameOf(t) == encode(build_message(outbox[IF t = EngineConn THEN 1 ELSE 2]))

InitWrites ==
    /\ InitCentral
    /\ outbox \in {<<L1, L2>> : L1 \in WriteLists, L2 \in WriteLists}
    /\ stream = <<>>
    /\ buffer = <<>>
    /\ dispatched = <<>>
    /\ parsed = <<>>
    /\ response = <<>>
    /\ sending = [t \in Writers |->
                    [data |-> FrameOf(t), taken |-> 0, waits |-> 0, returned |-> FALSE]]
    /\ written = <<>>
    /\ InitPeers

\* self.entity_to_socket[driver_id].send(msg) in thread t: the kernel takes
\* the next n bytes; with bytes left the call waits for room or returns short.
socket_send(t, n, short) ==
    LET s == sending[t]
        left == Len(s.data) - s.taken
    IN  /\ ~s.returned
        /\ n \in 1..left
        /\ n < left /\ ~short => s.waits < MaxWaits
        /\ written' = written \o SubSeq(s.data, s.taken + 1, s.taken + n)
        /\ sending' = [sending EXCEPT ![t] =
              [s EXCEPT !.taken = s.taken + n,
                        !.waits = IF n < left /\ ~short THEN s.waits + 1 ELSE s.waits,
                        !.returned = n = left \/ short]]
        /\ sent' = <<>>
        /\ UNCHANGED <<conn, outbox, stream, buffer, dispatched, parsed, response, peers>>
        /\ NoCentral

EngineWorkerSends ==
    \E n \in 1..Len(FrameOf(EngineConn)), short \in BOOLEAN :
       socket_send(EngineConn, n, short)
DriverWorkerSends ==
    \E n \in 1..Len(FrameOf(FirstDriverConn)), short \in BOOLEAN :
       socket_send(FirstDriverConn, n, short)

NextWrites ==
    \/ EngineWorkerSends
    \/ DriverWorkerSends

SpecWrites == InitWrites /\ [][NextWrites]_vars

\* Central, the engine of c1 and two drivers: d1 unplugs with END_CHARGE,
\* Central tells the engine END_SUPPLY, and d2 may be authorized on c1 before
\* the engine's answer has come back.
NextLateEnd ==
    \/ AcceptAny
    \/ EngineConnects
    \/ RegisterDriver
    \/ RequestCharge
    \/ DriverEndsCharge
    \/ CentralFinishes
    \/ CentralReadsEngine
    \/ EngineReads

SpecLateEnd == Init /\ [][NextLateEnd]_vars

\* A session of 7 kWh (98 units, 7 units a second: the engine's arithmetic is
\* exact for it) is authorized on c1 and left alone: no unplug, fault, stop
\* or alert.  The engine's loop keeps running, Central keeps reading and every
\* worker finishes what it started.
LongRequests == {7 * TotalSeconds}
DriverRequestsLong ==
    /\ \E k \in LongRequests : handle_charge_request(FirstDriverConn, "d1", "c1", k)
    /\ NoEngine

NextCharging ==
    \/ AcceptSession
    \/ EngineConnects
    \/ RegisterMonitor
    \/ DriverRegisters
    \/ DriverRequestsLong
    \/ CentralFinishes
    \/ CentralReadsEngine
    \/ EngineReads
    \/ EngineReports

SpecCharging ==
    /\ Init
    /\ [][NextCharging]_vars
    /\ WF_vars(CentralFinishes)
    /\ WF_vars(CentralReadsEngine)
    /\ WF_vars(EngineReads)
    /\ WF_vars(EngineReports)

\* ------------------------------------------------------ the CP monitor
\* The monitor of c1 alone: once a second it sends HEALTH_CHECK to the engine
\* and waits two seconds for the answer.  The engine answers HEALTH_OK or
\* HEALTH_KO; the read can also time out, return b'' or return bytes that do
\* not decode, and the send can raise.  MaxFailures bounds the failure
\* counter, MaxNotices the frames written to Central.
MaxFailures == 5
MaxNotices == 4
failure_threshold == 3
Outcomes == {"HEALTH_OK", "HEALTH_KO", "invalid", "closed", "timeout", "error"}
Failed(outcome) == outcome # "HEALTH_OK"

\* self.central_socket.send(frame): raises on a broken connection
central_send(frame) ==
    IF monitor.central_socket = "open" THEN Append(notices, frame) ELSE notices

\* A variant that reports a fault whatever engine_healthy says.
handle_engine_fault_every_time(m) ==
    LET failures == m.consecutive_failures + 1
    IN  /\ monitor' = [m EXCEPT !.consecutive_failures = failures,
                                !.engine_healthy =
                                    IF failures >= failure_threshold THEN FALSE ELSE @]
        /\ notices' = IF failures >= failure_threshold
                      THEN central_send("FAULT") ELSE notices

\* EVCPMonitor._handle_engine_fault, entered with the fields `m`
handle_engine_fault(m) ==
    LET failures == m.consecutive_failures + 1
        reports == failures >= failure_threshold /\ m.engine_healthy
    IN  /\ monitor' = [m EXCEPT !.consecutive_failures = failures,
                                !.engine_healthy = IF reports THEN FALSE ELSE @]
        /\ notices' = IF reports THEN central_send("FAULT") ELSE notices

\* One pass of EVCPMonitor.health_check_loop with the given outcome.
health_check(outcome) ==
    /\ Failed(outcome) => monitor.consecutive_failures < MaxFailures
    /\ Len(notices) < MaxNotices
    /\ checks' = SubSeq(Append(checks, outcome),
                        Max(1, Len(checks) + 2 - failure_threshold), Len(checks) + 1)
    /\ IF outcome = "HEALTH_OK"
       THEN IF ~monitor.engine_healthy /\ monitor.central_socket # "open"
            THEN \* the send of RECOVERY raises: `except Exception` counts a failure
                 /\ monitor.consecutive_failures < MaxFailures
                 /\ handle_engine_fault(monitor)
            ELSE /\ notices' = IF ~monitor.engine_healthy
                               THEN central_send("RECOVERY") ELSE notices
                 /\ monitor' = [monitor EXCEPT !.engine_healthy = TRUE,
                                               !.consecutive_failures = 0]
       ELSE handle_engine_fault(monitor)
    /\ sent' = <<>>
    /\ UNCHANGED <<conn, outbox, stream, buffer, dispatched, parsed, response, sending,
                   written, auto, to_driver>>
    /\ NoCentral

\* Central goes away: from now on every send on central_socket raises.
central_lost ==
    /\ monitor.central_socket = "open"
    /\ monitor' = [monitor EXCEPT !.central_socket = "broken"]
    /\ sent' = <<>>
    /\ UNCHANGED <<conn, outbox, stream, buffer, dispatched, parsed, response, sending,
                   written, checks, notices, auto, to_driver>>
    /\ NoCentral

HealthCheck == \E outcome \in Outcomes : health_check(outcome)
CentralLost == central_lost

NextMonitor ==
    \/ HealthCheck
    \/ CentralLost

SpecMonitor == Init /\ [][NextMonitor]_vars

\* ------------------------------------------------ the automated driver
\* Central, the engine of c1 and the automated driver d1 with its file of
\* requests.  Nobody unplugs, no monitor reports, no operator and no weather
\* service act.  MaxRequests bounds the length of the file.
MaxRequests == 2
RequestFiles ==
    LET Lines == {[cp_id |-> id, kwh_needed |-> k] : id \in CPIds, k \in LongRequests}
    IN  UNION {[1..n -> Lines] : n \in 1..MaxRequests}

InitAuto ==
    /\ InitCentral
    /\ outbox = <<>>
    /\ stream = <<>>
    /\ buffer = <<>>
    /\ dispatched = <<>>
    /\ parsed = <<>>
    /\ response = <<>>
    /\ sending = <<>>
    /\ written = <<>>
    /\ monitor = new_monitor
    /\ checks = <<>>
    /\ notices = <<>>
    /\ \E file \in RequestFiles :
          auto = [new_auto EXCEPT !.charging_requests = file]
    /\ to_driver = <<>>

\* Every frame Central wrote in this step reaches the socket of its peer.
DeliverAll ==
    /\ to_engine' = to_engine \o [i \in 1..Len(FramesTo(EngineConn, sent')) |->
                                     FramesTo(EngineConn, sent')[i].msg]
    /\ to_driver' = to_driver \o [i \in 1..Len(FramesTo(FirstDriverConn, sent')) |->
                                     FramesTo(FirstDriverConn, sent')[i].msg]
    /\ Len(to_engine') <= MaxQueue
    /\ Len(to_driver') <= MaxQueue
    /\ UNCHANGED <<engine, to_central, outbox, stream, buffer, dispatched, parsed,
                   response, sending, written, monitor, checks, notices>>

\* EVDriverAuto.run: connect_to_central registers the driver, then the
\* first process_next_request is due.
auto_run ==
    /\ auto.running
    /\ auto.due = 0
    /\ auto.current_request_number = 0
    /\ "d1" \notin DOMAIN drivers
    /\ handle_register_driver(FirstDriverConn, "d1")
    /\ auto' = [auto EXCEPT !.due = 1]
    /\ DeliverAll

\* EVDriverAuto.process_next_request and the send_charge_request it calls;
\* Central's worker handles the frame that was sent.
process_next_request ==
    /\ auto.running
    /\ auto.due > 0
    /\ IF auto.current_request_number >= Len(auto.charging_requests)
       THEN /\ auto' = [auto EXCEPT !.running = FALSE, !.due = @ - 1]
            /\ sent' = <<>>
            /\ UNCHANGED <<core, store, conn, pend, now, sessions_ended>>
       ELSE LET request == auto.charging_requests[auto.current_request_number + 1]
            IN  IF auto.status # "IDLE"
                THEN /\ auto' = [auto EXCEPT !.current_request_number = @ + 1,
                                             !.due = @ - 1]
                     /\ sent' = <<>>
                     /\ UNCHANGED <<core, store, conn, pend, now, sessions_ended>>
                ELSE /\ auto' = [auto EXCEPT !.current_request_number = @ + 1,
                                             !.due = @ - 1, !.status = "REQUESTING"]
                     /\ handle_charge_request(FirstDriverConn, "d1", request.cp_id,
                                              request.kwh_needed)
    /\ DeliverAll

\* EVDriverAuto._listen_to_central: the next frame of Central is dispatched
\* to _handle_authorization, _handle_denial or _handle_ticket; the two
\* last call _schedule_next_request.
listen_to_central ==
    /\ to_driver # <<>>
    /\ LET m == Head(to_driver) IN
       auto' = CASE m.type = "AUTHORIZE" ->
                       [auto EXCEPT !.status = "CHARGING", !.current_cp = m.cp]
                 [] m.type \in {"DENY", "TICKET"} ->
                       [auto EXCEPT !.status = "IDLE", !.current_cp = NONE,
                                    !.due = @ + 1]
                 [] OTHER -> auto
    /\ to_driver' = Tail(to_driver)
    /\ sent' = <<>>
    /\ UNCHANGED <<core, store, conn, pend, now, sessions_ended, engine, to_engine,
                   to_central, outbox, stream, buffer, dispatched, parsed, response,
                   sending, written, monitor, checks, notices>>

AutoRuns == auto_run
AutoProcessesNext == process_next_request
AutoListens == listen_to_central
CentralFinishesAll == \E t \in Threads : Finish(t) /\ DeliverAll /\ UNCHANGED auto

NextAuto ==
    \/ AcceptSession
    \/ EngineConnects
    \/ AutoRuns
    \/ AutoProcessesNext
    \/ AutoListens
    \/ CentralFinishesAll
    \/ CentralReadsEngine
    \/ EngineReads
    \/ EngineReports

SpecAuto ==
    /\ InitAuto
    /\ [][NextAuto]_vars
    /\ WF_vars(AcceptSession)
    /\ WF_vars(EngineConnects)
    /\ WF_vars(AutoRuns)
    /\ WF_vars(AutoProcessesNext)
    /\ WF_vars(AutoListens)
    /\ WF_vars(CentralFinishesAll)
    /\ WF_vars(CentralReadsEngine)
    /\ WF_vars(EngineReads)
    /\ WF_vars(EngineReports)

\* =================================================================
\* Properties
\* =================================================================
Known(cp_id) == cp_id \in DOMAIN charging_points
Busy(cp_id) == Known(cp_id) /\ charging_points[cp_id].current_driver # NONE
TheDeny(c, d, cp_id, reason) == <<Wrote(c, DENY(d, cp_id, reason), TRUE)>>
RecordsUnchanged == UNCHANGED <<charging_points, drivers>>

\* C1: requests of distinct drivers for the same CP are serialised by the lock.
\* A request is authorized only on a CP that is Activated with no current
\* driver, making it Supplying with the requester as current driver; a request
\* that finds the CP already taken by the winner (Supplying, or Activated with
\* a current driver) is answered with a DENY whose reason is CP_ALREADY_IN_USE
\* or CP_STATE_SUPPLYING and authorizes nothing.
C1_AtMostOneAuthorized ==
    [][\A c \in DriverConns, k \in KwhRequests :
          handle_charge_request(c, DriverOf(c), "c1", k) /\ Known("c1") =>
             LET cp == charging_points["c1"] IN
             /\ (cp.state = ACTIVATED /\ cp.current_driver = NONE) =>
                   /\ charging_points'["c1"].state = SUPPLYING
                   /\ charging_points'["c1"].current_driver = DriverOf(c)
                   /\ sent' = <<>>
             /\ (cp.current_driver # NONE /\ cp.state \in {ACTIVATED, SUPPLYING}) =>
                   /\ \E r \in {"CP_ALREADY_IN_USE", "CP_STATE_SUPPLYING"} :
                         sent' = TheDeny(c, DriverOf(c), "c1", r)
                   /\ RecordsUnchanged
                   /\ pend' = pend]_vars

\* d1 won the race and d2 has just been denied.
C1_Witness ==
    /\ Known("c1")
    /\ charging_points["c1"].state = SUPPLYING
    /\ charging_points["c1"].current_driver = "d1"
    /\ "d2" \in DOMAIN drivers
    /\ \E c \in DriverConns : sent = TheDeny(c, "d2", "c1", "CP_STATE_SUPPLYING")

\* C8: a denied REQUEST_CHARGE carries CP_NOT_FOUND for an unknown CP,
\* CP_STATE_<state> for a CP that is not Activated and CP_ALREADY_IN_USE for
\* an Activated CP with a current driver; the step writes exactly that one
\* DENY, to the requester, and changes no CP or driver record.
C8_DenyReasons ==
    [][\A c \in DriverConns, k \in KwhRequests :
          LET d == DriverOf(c)
              expected ==
                 IF ~Known("c1") THEN "CP_NOT_FOUND"
                 ELSE IF charging_points["c1"].state # ACTIVATED
                      THEN "CP_STATE_" \o charging_points["c1"].state
                      ELSE "CP_ALREADY_IN_USE"
              refused == ~Known("c1") \/ charging_points["c1"].state # ACTIVATED
                            \/ charging_points["c1"].current_driver # NONE
          IN handle_charge_request(c, d, "c1", k) /\ refused =>
                /\ sent' = TheDeny(c, d, "c1", expected)
                /\ RecordsUnchanged
                /\ pend' = pend]_vars

\* Each of the three reasons has been given: this one is the rarest, an
\* Activated CP that still has a current driver.
C8_Witness ==
    /\ Busy("c1")
    /\ charging_points["c1"].state = ACTIVATED
    /\ \E c \in DriverConns : sent = TheDeny(c, DriverOf(c), "c1", "CP_ALREADY_IN_USE")

C8_WitnessNotFound ==
    /\ ~Known("c1")
    /\ \E c \in DriverConns : sent = TheDeny(c, DriverOf(c), "c1", "CP_NOT_FOUND")

C8_WitnessState ==
    /\ Known("c1")
    /\ charging_points["c1"].state = OUT_OF_ORDER
    /\ \E c \in DriverConns :
          sent = TheDeny(c, DriverOf(c), "c1", "CP_STATE_" \o OUT_OF_ORDER)

\* d1 charges on c1 (c1 Supplying, d1 its current driver, d1 CHARGING on c1).
ActiveSession(cp_id, d) ==
    /\ Known(cp_id)
    /\ charging_points[cp_id].state = SUPPLYING
    /\ charging_points[cp_id].current_driver = d
    /\ d \in DOMAIN drivers
    /\ drivers[d] = [status |-> "CHARGING", current_cp |-> cp_id]

D2Conn == CHOOSE c \in DriverConns : DriverOf(c) = "d2"

\* C9 as the specification's scenario words it: while d1 has an active session
\* on c1, a REQUEST_CHARGE of d2 for c1 is answered DENY d2 c1
\* CP_ALREADY_IN_USE and leaves c1 and d1 as they were.
C9_AsStated ==
    [][\A k \in KwhRequests :
          handle_charge_request(D2Conn, "d2", "c1", k) /\ ActiveSession("c1", "d1") =>
             /\ sent' = TheDeny(D2Conn, "d2", "c1", "CP_ALREADY_IN_USE")
             /\ RecordsUnchanged]_vars

\* C9 as the code answers: while d1 has an active session on c1, a
\* REQUEST_CHARGE of d2 for c1 is answered DENY d2 c1 CP_STATE_SUPPLYING, the
\* state being examined before the current driver, and c1's state, current
\* driver and counters and d1's status are unchanged.
C9_DeniedWhileSupplying ==
    [][\A k \in KwhRequests :
          handle_charge_request(D2Conn, "d2", "c1", k) /\ ActiveSession("c1", "d1") =>
             /\ sent' = TheDeny(D2Conn, "d2", "c1", "CP_STATE_SUPPLYING")
             /\ charging_points'["c1"] = charging_points["c1"]
             /\ drivers'["d1"] = drivers["d1"]]_vars

\* d2 has just been denied during the session of d1.
C9_Witness ==
    /\ ActiveSession("c1", "d1")
    /\ sent = TheDeny(D2Conn, "d2", "c1", "CP_STATE_SUPPLYING")

\* C3: every Supplying CP has a current driver who is registered, CHARGING,
\* and whose current_cp is that CP.
C3_SupplyingHasChargingDriver ==
    \A id \in DOMAIN charging_points :
        charging_points[id].state = SUPPLYING =>
            LET d == charging_points[id].current_driver IN
            /\ d # NONE
            /\ d \in DOMAIN drivers
            /\ drivers[d] = [status |-> "CHARGING", current_cp |-> id]

\* C5: a CP has a current driver exactly when its state is Supplying.
C5_DriverIffSupplying ==
    \A id \in DOMAIN charging_points :
        charging_points[id].current_driver # NONE <=> charging_points[id].state = SUPPLYING

\* The last record of the history is the one a FAULT wrote for the session
\* of d on the CP, and the CP is still Out of order.
FaultEnded(cp_id, d) ==
    /\ Known(cp_id)
    /\ charging_points[cp_id].state = OUT_OF_ORDER
    /\ charging_points[cp_id].current_driver = NONE
    /\ history # <<>>
    /\ history[Len(history)] = HistOp(cp_id, d, 0, 0, 0).rec
    /\ HistRecs(pend[EngineConn]) = <<>>

\* C6: of a FAULT and a SUPPLY_END racing for one session, the one processed
\* second is a no-op.  Stated for the SUPPLY_END that comes second: the FAULT
\* has left the CP Out of order, and the SUPPLY_END then changes no CP or
\* driver record and leaves no history record, statistics update or TICKET to
\* be written.
C6_LateSupplyEndIsNoOp ==
    [][\A d \in EngineDrivers, k \in Increments, a \in Amounts :
          /\ handle_supply_end(EngineConn, "c1", d, k, a)
          /\ FaultEnded("c1", d)
          => /\ RecordsUnchanged
             /\ pend'[EngineConn] = <<>>]_vars

\* C7: no frame is written to a socket while self.lock is held.
C7_NoSendUnderLock == \A i \in 1..Len(sent) : ~sent[i].locked

\* C10: a SUPPLY_END for the active session of a CP returns the CP to
\* Activated with no current driver and zeroed counters, sets the driver Idle
\* with no current CP, and leaves to be written the history record, the TICKET
\* for the driver's connection and the DRIVER_STOP for the monitor; the CP is
\* then listed as available and a REQUEST_CHARGE for it would be authorized.
\* When that work runs, the TICKET goes to the driver's connection and the
\* DRIVER_STOP to the monitor's if one is bound.
C10_SupplyEnd ==
    [][/\ \A d \in EngineDrivers, k \in Increments, a \in Amounts :
             handle_supply_end(EngineConn, "c1", d, k, a) /\ ActiveSession("c1", d) =>
                /\ charging_points'["c1"].state = ACTIVATED
                /\ charging_points'["c1"].current_driver = NONE
                /\ charging_points'["c1"].kwh_delivered = 0
                /\ charging_points'["c1"].amount_euro = 0
                /\ drivers'[d] = [status |-> "IDLE", current_cp |-> NONE]
                /\ "c1" \in available_cps(charging_points')
                /\ deny_reason(charging_points', "c1") = NONE
                /\ Len(HistRecs(pend'[EngineConn])) = 1
                /\ \E i \in 1..Len(pend'[EngineConn]) :
                      pend'[EngineConn][i] = EntOp(d, TICKET("c1", k, a))
                /\ \E i \in 1..Len(pend'[EngineConn]) :
                      pend'[EngineConn][i] = MonOp("c1", MONITOR_NOTE("DRIVER_STOP", "c1", d))
       /\ \A d \in EngineDrivers, k \in Increments, a \in Amounts :
             /\ Finish(EngineConn)
             /\ \E i \in 1..Len(pend[EngineConn]) :
                   pend[EngineConn][i] = EntOp(d, TICKET("c1", k, a))
             => /\ (d \in DOMAIN entity_to_socket /\ Writable(entity_to_socket[d])) =>
                   \E i \in 1..Len(sent') :
                      sent'[i] = Wrote(entity_to_socket[d], TICKET("c1", k, a), FALSE)
                /\ ("c1" \in DOMAIN monitors /\ Writable(monitors["c1"])) =>
                   \E i \in 1..Len(sent') :
                      sent'[i] = Wrote(monitors["c1"],
                                       MONITOR_NOTE("DRIVER_STOP", "c1", d), FALSE)
                /\ Len(history') = Len(history) + 1]_vars

\* A session of d1 was ended by SUPPLY_END (ticket and monitor notice
\* written), and d1 has since been authorized on c1 again.
C10_Witness ==
    /\ \E k \in Increments, a \in Amounts :
          /\ history = <<HistOp("c1", "d1", k, a, 0).rec>>
          /\ "d1" \in DOMAIN driver_file
          /\ driver_file["d1"].total_charges = 1
    /\ ActiveSession("c1", "d1")
    /\ "c1" \in DOMAIN monitors

\* The TICKET and the DRIVER_STOP of a SUPPLY_END have just been written.
C10_WitnessSent ==
    \E k \in Increments, a \in Amounts :
        sent = <<Wrote(FirstDriverConn, TICKET("c1", k, a), FALSE),
                 Wrote(MonitorConn, MONITOR_NOTE("DRIVER_STOP", "c1", "d1"), FALSE)>>

\* C4: no driver is the current driver of two CPs.
C4_OneCpPerDriver ==
    \A a \in DOMAIN charging_points, b \in DOMAIN charging_points :
        (a # b /\ charging_points[a].current_driver # NONE) =>
            charging_points[a].current_driver # charging_points[b].current_driver

\* Nothing is left to write or to read.
Quiescent ==
    /\ \A t \in Threads : pend[t] = <<>>
    /\ to_engine = <<>>
    /\ to_central = <<>>

\* C2: every ended session appends exactly one history record: once all the
\* work in flight is done, the history holds as many records as sessions
\* have ended, the engine answering END_SUPPLY and STOP_COMMAND as it does.
C2_OneRecordPerSession == Quiescent => Len(history) = sessions_ended

\* C11: a HEARTBEAT for a Supplying CP changes nothing in the CP's record,
\* whatever state it reports, and a HEARTBEAT for an unknown CP id creates no
\* record; neither touches a driver.
C11_HeartbeatWhileSupplying ==
    [][\A st \in HeartbeatStates :
          handle_heartbeat(EngineConn, "c1", st) =>
             /\ (Known("c1") /\ charging_points["c1"].state = SUPPLYING) =>
                   charging_points' = charging_points
             /\ ~Known("c1") => charging_points' = charging_points
             /\ drivers' = drivers]_vars

\* c1 is Supplying for d1, energy has been delivered, and the worker of the
\* engine's connection is ready for the next HEARTBEAT.
C11_Witness ==
    /\ ActiveSession("c1", "d1")
    /\ charging_points["c1"].kwh_delivered > 0
    /\ Idle(EngineConn)

\* The worker of the engine's connection is ready for a HEARTBEAT of a CP
\* that Central does not know.
C11_WitnessUnknown == ~Known("c1") /\ Idle(EngineConn)

\* C12: a Stopped CP becomes Activated only by the operator's resume, and an
\* Out of order CP only by RECOVERY or a weather clear, a fresh REGISTER of
\* the CP aside.
C12_LeavesOnlyByResumeOrRecovery ==
    [][(/\ Known("c1")
        /\ charging_points["c1"].state \in {STOPPED, OUT_OF_ORDER}
        /\ "c1" \in DOMAIN charging_points'
        /\ charging_points'["c1"].state = ACTIVATED)
       => \/ \E p \in Prices : handle_register_cp(EngineConn, "c1", p)
          \/ charging_points["c1"].state = STOPPED /\ admin_resume("c1")
          \/ /\ charging_points["c1"].state = OUT_OF_ORDER
             /\ (handle_recovery(MonitorConn, "c1") \/ weather_clear("c1"))]_vars

\* C14: a FAULT for a CP with a session sets it Out of order, clears the
\* session, sets the driver Idle, appends exactly one history record with the
\* energy and amount accumulated so far and leaves the DENY
\* CP_FAULT_EMERGENCY_STOP to be sent to the driver, which is then written to
\* the driver's connection; a FAULT for a CP that is not Supplying only sets
\* Out of order and writes no history; a RECOVERY sets the CP Activated.
C14_Fault ==
    [][/\ (handle_fault(MonitorConn, "c1") /\ Known("c1")) =>
             LET cp == charging_points["c1"]
                 d == cp.current_driver
             IN /\ charging_points'["c1"].state = OUT_OF_ORDER
                /\ (cp.state = SUPPLYING /\ d # NONE) =>
                      /\ charging_points'["c1"].current_driver = NONE
                      /\ charging_points'["c1"].kwh_delivered = 0
                      /\ charging_points'["c1"].amount_euro = 0
                      /\ d \in DOMAIN drivers =>
                            drivers'[d] = [status |-> "IDLE", current_cp |-> NONE]
                      /\ history' = Append(history,
                            [cp_id |-> "c1", driver_id |-> d,
                             kwh_delivered |-> cp.kwh_delivered,
                             total_amount |-> cp.amount_euro,
                             duration_seconds |-> duration_of(cp)])
                      /\ pend'[MonitorConn] =
                            <<EntOp(d, DENY(d, "c1", "CP_FAULT_EMERGENCY_STOP"))>>
                /\ cp.state # SUPPLYING =>
                      /\ charging_points'["c1"] = [cp EXCEPT !.state = OUT_OF_ORDER]
                      /\ UNCHANGED <<drivers, history, driver_file, pend>>
       /\ \A d \in DriverIds :
             (/\ Finish(MonitorConn)
              /\ pend[MonitorConn] = <<EntOp(d, DENY(d, "c1", "CP_FAULT_EMERGENCY_STOP"))>>
              /\ d \in DOMAIN entity_to_socket
              /\ Writable(entity_to_socket[d]))
             => /\ sent' = <<Wrote(entity_to_socket[d],
                                   DENY(d, "c1", "CP_FAULT_EMERGENCY_STOP"), FALSE)>>
                /\ history' = history
       /\ (handle_recovery(MonitorConn, "c1") /\ Known("c1")) =>
             charging_points'["c1"].state = ACTIVATED]_vars

\* A FAULT ended the session of d1 after energy was delivered: the record is
\* in the history, c1 is Out of order and the DENY has just been written.
C14_Witness ==
    /\ Known("c1")
    /\ charging_points["c1"].state = OUT_OF_ORDER
    /\ charging_points["c1"].current_driver = NONE
    /\ history # <<>>
    /\ history[Len(history)].driver_id = "d1"
    /\ history[Len(history)].kwh_delivered > 0
    /\ sent = <<Wrote(FirstDriverConn, DENY("d1", "c1", "CP_FAULT_EMERGENCY_STOP"), FALSE)>>

\* After a FAULT and a RECOVERY c1 is Activated again, the record kept.
C14_WitnessRecovered ==
    /\ Known("c1")
    /\ charging_points["c1"].state = ACTIVATED
    /\ history # <<>>
    /\ history[Len(history)].kwh_delivered > 0

HasAlert(cp_id) == \E i \in 1..Len(weather_alerts) : weather_alerts[i] = cp_id

\* C15: the weather-alert list holds an entry for a CP only while that CP is
\* Out of order.
C15_AlertOnlyWhileOutOfOrder ==
    \A i \in 1..Len(weather_alerts) :
        /\ Known(weather_alerts[i])
        /\ charging_points[weather_alerts[i]].state = OUT_OF_ORDER

\* C16: a weather clear sets the CP Activated, and removes its alerts, only
\* if the CP is Out of order at that moment; in any other state, Stopped by
\* the operator in particular, it leaves the CP and the alert list unchanged.
C16_ClearOnlyOutOfOrder ==
    [][(weather_clear("c1") /\ Known("c1")) =>
          IF charging_points["c1"].state = OUT_OF_ORDER
          THEN /\ charging_points' =
                     [charging_points EXCEPT !["c1"].state = ACTIVATED]
               /\ ~(\E i \in 1..Len(weather_alerts') : weather_alerts'[i] = "c1")
          ELSE /\ charging_points' = charging_points
               /\ weather_alerts' = weather_alerts]_vars

\* The operator stopped c1 while its weather alert stood: a weather clear
\* arriving now must leave c1 Stopped and the alert listed.
C16_Witness ==
    /\ Known("c1")
    /\ charging_points["c1"].state = STOPPED
    /\ HasAlert("c1")

\* A weather clear has restored c1 after an alert that ended a session.
C16_WitnessCleared ==
    /\ Known("c1")
    /\ charging_points["c1"].state = ACTIVATED
    /\ ~HasAlert("c1")
    /\ history # <<>>
    /\ sessions_ended > 0

\* C13: the operator's stop of a CP with a session leaves the CP Stopped with
\* no current driver and zeroed counters, sets the driver Idle, appends one
\* history record with the energy accumulated so far, and then writes
\* STOP_COMMAND to the CP's connection and a TICKET to the driver's
\* connection, the TICKET whenever the driver's connection is there, whatever
\* has become of the CP's.
C13_StopSendsTicket ==
    [][/\ (admin_stop("c1") /\ ActiveSession("c1", "d1")) =>
             /\ charging_points'["c1"].state = STOPPED
             /\ charging_points'["c1"].current_driver = NONE
             /\ charging_points'["c1"].kwh_delivered = 0
             /\ charging_points'["c1"].amount_euro = 0
             /\ drivers'["d1"] = [status |-> "IDLE", current_cp |-> NONE]
             /\ Len(history') = Len(history) + 1
             /\ history'[Len(history')].kwh_delivered = charging_points["c1"].kwh_delivered
       /\ \A k \in 0..(MaxUnits * TotalSeconds), a \in 0..(MaxUnits * TotalSeconds * 2) :
             (/\ Finish(AdminThread)
              /\ pend[AdminThread] = <<StopOp("c1", COMMAND("STOP_COMMAND", "c1"), TRUE,
                                              "d1", TICKET("c1", k, a))>>
              /\ "d1" \in DOMAIN entity_to_socket
              /\ Writable(entity_to_socket["d1"]))
             => \E i \in 1..Len(sent') :
                   sent'[i] = Wrote(entity_to_socket["d1"], TICKET("c1", k, a), FALSE)]_vars

\* C17: a REGISTER for an id that exists keeps the record, sets the CP
\* Activated (the driver Idle) and binds the id to the registering
\* connection; every frame then fanned out to the id is written to the
\* connection the id is bound to, and none to the one it superseded.
C17_ReRegistrationRebinds ==
    [][/\ \A c \in {EngineConn, SecondEngineConn}, p \in Prices :
             handle_register_cp(c, "c1", p) =>
                /\ "c1" \in DOMAIN charging_points'
                /\ charging_points'["c1"].state = ACTIVATED
                /\ entity_to_socket'["c1"] = c
       /\ \A c \in {FirstDriverConn, SecondDriverConn} :
             handle_register_driver(c, "d1") =>
                /\ "d1" \in DOMAIN drivers'
                /\ drivers'["d1"].status = "IDLE"
                /\ entity_to_socket'["d1"] = c
       /\ \A t \in Threads :
             Finish(t) =>
                \A j \in 1..Len(pend[t]) :
                   (pend[t][j].op = "ent" /\ pend[t][j].id \in DOMAIN entity_to_socket) =>
                      LET bound == entity_to_socket[pend[t][j].id] IN
                      /\ Writable(bound) =>
                            \E i \in 1..Len(sent') :
                               sent'[i] = Wrote(bound, pend[t][j].msg, FALSE)
                      /\ \A i \in 1..Len(sent') :
                            sent'[i].msg = pend[t][j].msg => sent'[i].to = bound]_vars

\* d1 registered on its first connection and again on its second, which
\* superseded it; the TICKET of a session has just been written to the
\* second while the first is still open.
C17_Witness ==
    /\ "d1" \in DOMAIN entity_to_socket
    /\ entity_to_socket["d1"] = SecondDriverConn
    /\ conn[FirstDriverConn] = "open"
    /\ \E k \in Increments, a \in Amounts :
          sent = <<Wrote(SecondDriverConn, TICKET("c1", k, a), FALSE)>>

\* The engine registered c1 again on its second connection, and the AUTHORIZE
\* of a session has been written there.
C17_WitnessCP ==
    /\ "c1" \in DOMAIN entity_to_socket
    /\ entity_to_socket["c1"] = SecondEngineConn
    /\ conn[EngineConn] = "open"
    /\ \E i \in 1..Len(sent), k \in KwhRequests :
          sent[i] = Wrote(SecondEngineConn, AUTHORIZE_CP("d1", "c1", k), FALSE)

\* C18: no entity id is bound to a connection whose worker has torn down.
C18_NoBindingToClosedConnection ==
    /\ \A id \in DOMAIN entity_to_socket : conn[entity_to_socket[id]] # "closed"
    /\ \A id \in DOMAIN monitors : conn[monitors[id]] # "closed"

\* C19: the loss of a connection alone changes no CP record and no driver
\* record, writes no history record and no statistics, and leaves no work
\* to do.
C19_PeerLossChangesNoSession ==
    [][\A c \in Conns :
          Disconnect(c) =>
             UNCHANGED <<charging_points, drivers, history, driver_file, pend>>]_vars

\* The connection of d1's client is gone and the session of d1 goes on.
C19_Witness ==
    /\ ActiveSession("c1", "d1")
    /\ entity_to_socket["d1"] = FirstDriverConn
    /\ conn[FirstDriverConn] = "closed"

\* The connection of the engine is gone and the session on c1 goes on.
C19_WitnessEngine ==
    /\ ActiveSession("c1", "d1")
    /\ entity_to_socket["c1"] = EngineConn
    /\ conn[EngineConn] = "closed"

\* C20: a frame with too few fields, of an unknown type, or with a
\* non-numeric value in a numeric field is ignored for that frame only:
\* nothing changes, nothing is written, and the connection stays open.
C20_MalformedFrameIgnored ==
    [][\A f \in ClientFrames \cup EngineFrames, c \in {EngineConn, FirstDriverConn} :
          (receive_frame(c, f) /\ Malformed(f)) =>
             /\ conn'[c] = "open"
             /\ sent' = <<>>
             /\ UNCHANGED <<core, store, pend>>]_vars

\* The payloads of the peer's messages, and how many of its frames lie
\* wholly within the first n bytes it wrote.
Payloads == [i \in 1..Len(outbox) |-> build_message(outbox[i])]
FramesWithin(n) ==
    Cardinality({k \in 1..Len(outbox) :
                    Len(frames_of(SubSeq(outbox, 1, k))) <= n})

\* C21: decoding the frame encoded from the message built from any field
\* list L (without '#', STX or ETX in its fields) is reported valid, and
\* parsing the payload gives back exactly L.
C21_RoundTrip ==
    parsed # <<>> => parsed[1].is_valid /\ parsed[1].fields = outbox[1]
\* The empty field list has been encoded and decoded.
C21_Witness == parsed # <<>> /\ outbox[1] = <<>>

\* C22: whatever the chunks, after each read the worker has dispatched, in
\* order, the message of every frame that has wholly arrived, and no other.
C22_FramesDispatchedInOrder ==
    dispatched = SubSeq(Payloads, 1, FramesWithin(Len(frames_of(outbox)) - Len(stream)))
\* The first frame has been dispatched while a chunk boundary cuts the second.
C22_Witness ==
    /\ Len(outbox) = 2
    /\ Len(dispatched) = 1
    /\ buffer # <<>>
    /\ stream # <<>>

\* C23: when the peer's bytes open with something that can never be a frame,
\* the worker eventually drops the connection or dispatches the frames that
\* follow.
C23_NoStall == <>(conn[PeerConn] = "closed" \/ dispatched = Payloads)

\* C24: whenever a CP is Supplying, the energy Central has counted for it is
\* at least 0 and at most the energy requested for the session.
C24_DeliveredWithinRequested ==
    \A id \in DOMAIN charging_points :
        charging_points[id].state = SUPPLYING =>
            /\ charging_points[id].kwh_delivered >= 0
            /\ charging_points[id].kwh_delivered <= get_kwh_needed(charging_points[id])

CompleteNote(ws) == \E i \in 1..Len(ws) : ws[i].msg.type = "CHARGING_COMPLETE"

\* C25: a SUPPLY_UPDATE ends no session: it leaves the CP's state and current
\* driver, the drivers and the history as they were and leaves no record or
\* TICKET to be written, also when the delivered energy reaches or passes the
\* requested energy.  CHARGING_COMPLETE is written only by the update that
\* first brings the delivered energy to the requested energy, which raises
\* charging_complete; the flag stays raised as long as the session lasts, so
\* the note is written at most once per session.
C25_UpdateEndsNoSession ==
    [][/\ \A k \in Increments, a \in Amounts :
             handle_supply_update(EngineConn, "c1", k, a) /\ Known("c1") =>
                LET cp == charging_points["c1"] IN
                /\ charging_points'["c1"].state = cp.state
                /\ charging_points'["c1"].current_driver = cp.current_driver
                /\ charging_points'["c1"].session_start = cp.session_start
                /\ charging_points'["c1"].kwh_delivered = cp.kwh_delivered + k
                /\ UNCHANGED <<drivers, history, driver_file, sessions_ended>>
                /\ \A i \in 1..Len(pend'[EngineConn]) :
                      pend'[EngineConn][i] =
                         EntOp(cp.current_driver, SUPPLY_UPDATE("c1", k, a))
                /\ CompleteNote(sent') <=>
                      /\ ~cp.charging_complete
                      /\ cp.kwh_delivered + k >= get_kwh_needed(cp)
                      /\ "c1" \in DOMAIN monitors
                      /\ Writable(monitors["c1"])
                /\ CompleteNote(sent') => charging_points'["c1"].charging_complete
       /\ CompleteNote(sent') =>
             \E k \in Increments, a \in Amounts :
                handle_supply_update(EngineConn, "c1", k, a)
       /\ (/\ Busy("c1")
           /\ charging_points["c1"].charging_complete
           /\ Busy("c1")'
           /\ charging_points'["c1"].current_driver = charging_points["c1"].current_driver
           /\ charging_points'["c1"].session_start = charging_points["c1"].session_start)
          => charging_points'["c1"].charging_complete]_vars

\* Updates went on after the requested energy was reached: d1 still charges.
C25_Witness ==
    /\ ActiveSession("c1", "d1")
    /\ charging_points["c1"].charging_complete
    /\ charging_points["c1"].kwh_delivered > get_kwh_needed(charging_points["c1"])
    /\ "c1" \in DOMAIN monitors

\* CHARGING_COMPLETE has just been written to the monitor.
C25_WitnessNote ==
    /\ ActiveSession("c1", "d1")
    /\ sent = <<Wrote(MonitorConn, MONITOR_NOTE("CHARGING_COMPLETE", "c1", "d1"), TRUE)>>

\* C26: an END_CHARGE of driver d for a CP is acted on only if d is the CP's
\* current driver.  For an unknown CP, or a CP whose current driver is not d,
\* the step changes no CP or driver record, no file, writes nothing and
\* leaves nothing to be written (no record, END_SUPPLY, TICKET or
\* DRIVER_STOP); for the current driver it ends the session.
C26_EndChargeOnlyByCurrentDriver ==
    [][\A c \in DriverConns, id \in CPIds :
          handle_end_charge(c, DriverOf(c), id) =>
             IF Known(id) /\ charging_points[id].current_driver = DriverOf(c)
             THEN /\ charging_points'[id].current_driver = NONE
                  /\ charging_points'[id].state = ACTIVATED
                  /\ Len(HistRecs(pend'[c])) = 1
                  /\ \E i \in 1..Len(pend'[c]) :
                        pend'[c][i] = EntOp(id, COMMAND("END_SUPPLY", id))
             ELSE /\ UNCHANGED <<charging_points, drivers, history, driver_file,
                                 entity_to_socket, monitors, pend, sessions_ended>>
                  /\ sent' = <<>>]_vars

\* d1 charges on c1 while d2, registered and connected, may send END_CHARGE
\* for c1 or for the unknown c2.
C26_Witness ==
    /\ ActiveSession("c1", "d1")
    /\ "d2" \in DOMAIN drivers
    /\ ~Known("c2")
    /\ Idle(D2Conn)

\* d1 ended its own session: the record waits to be written.
C26_WitnessEnded ==
    /\ Known("c1")
    /\ charging_points["c1"].state = ACTIVATED
    /\ "d2" \in DOMAIN drivers
    /\ Len(HistRecs(pend[FirstDriverConn])) = 1

\* No REGISTER for the CP id has been processed: REGISTER is the only code
\* that binds a CP id to a connection, and no code removes a binding.
NeverRegistered(cp_id) == cp_id \notin DOMAIN entity_to_socket

\* C27: a CP that Central knows only from the registry or from persistence
\* is not Activated, and so not given to a driver, before a REGISTER for its
\* id, whatever heartbeats, RECOVERY frames, operator commands and weather
\* hooks arrive for it.
C27_ActivatedOnlyByRegister ==
    \A id \in DOMAIN charging_points :
        NeverRegistered(id) => charging_points[id].state \notin {ACTIVATED, SUPPLYING}

\* C28: a registry poll that returns the set R leaves a table whose ids are
\* exactly R: the CPs of R that were missing are inserted Disconnected with
\* no current driver and zeroed counters, the CPs not in R are removed, and
\* the records of the others are as they were.
C28_PollMirrorsRegistry ==
    [][\A R \in SUBSET CPIds, p \in Prices :
          registry_poll(R, p) =>
             /\ DOMAIN charging_points' = R
             /\ \A id \in R :
                   IF id \in DOMAIN charging_points
                   THEN charging_points'[id] = charging_points[id]
                   ELSE /\ charging_points'[id].state = DISCONNECTED
                        /\ charging_points'[id].current_driver = NONE
                        /\ charging_points'[id].kwh_delivered = 0
                        /\ charging_points'[id].price_per_kwh = p]_vars

\* A poll has inserted c2 while c1, registered and charging d1, was kept.
C28_Witness ==
    /\ ActiveSession("c1", "d1")
    /\ Known("c2")
    /\ charging_points["c2"].state = DISCONNECTED

\* A poll has removed c1 after its engine registered.
C28_WitnessRemoved == ~Known("c1") /\ ~NeverRegistered("c1")

\* C29: the history query with limit N >= 0 answers with the last
\* min(N, number of records) records, in the order they were appended, and
\* leaves the history as it was.
C29_LastNRecords ==
    [][\A limit \in Limits :
          get_history(limit) =>
             /\ response' = <<SubSeq(history, Len(history) - Min(limit, Len(history)) + 1,
                                     Len(history))>>
             /\ history' = history]_vars

\* Two records that differ are stored and a query has been answered with
\* the last one alone.
C29_Witness ==
    /\ Len(history) = 2
    /\ history[1] # history[2]
    /\ response = <<<<history[2]>>>>

\* The entry of a CP in the AVAILABLE_CPS answer.
Entry(id) ==
    [cp_id |-> id, location |-> charging_points[id].location,
     price_per_kwh |-> charging_points[id].price_per_kwh]

\* C30: the answer to QUERY_AVAILABLE_CPS lists exactly the CPs that are
\* Activated with no current driver when the query is processed, each with
\* its location and price; processing the query changes no table and no
\* file, and the answer is what is then written to the requester.
C30_AvailableCps ==
    [][/\ handle_query_available_cps(FirstDriverConn, "d1") =>
             /\ pend'[FirstDriverConn] =
                   <<SockOp(FirstDriverConn, AVAILABLE_CPS(
                        {Entry(id) : id \in {x \in DOMAIN charging_points :
                             /\ charging_points[x].state = ACTIVATED
                             /\ charging_points[x].current_driver = NONE}}))>>
             /\ UNCHANGED <<core, store, conn, now, sessions_ended>>
       /\ (/\ Finish(FirstDriverConn)
           /\ Len(pend[FirstDriverConn]) = 1
           /\ pend[FirstDriverConn][1].op = "sock"
           /\ pend[FirstDriverConn][1].msg.type = "AVAILABLE_CPS")
          => /\ sent' = <<Wrote(FirstDriverConn, pend[FirstDriverConn][1].msg, FALSE)>>
             /\ UNCHANGED <<core, store>>]_vars

\* The answer just written lists c2 alone: c1 is known and Activated but
\* has a current driver.
C30_Witness ==
    /\ Known("c1")
    /\ Known("c2")
    /\ charging_points["c1"].state = ACTIVATED
    /\ charging_points["c1"].current_driver = "d1"
    /\ sent = <<Wrote(FirstDriverConn, AVAILABLE_CPS({Entry("c2")}), FALSE)>>

\* The answer just written lists no CP, both being taken or unknown.
C30_WitnessNone ==
    /\ Known("c1")
    /\ sent = <<Wrote(FirstDriverConn, AVAILABLE_CPS({}), FALSE)>>

\* C31: a weather alert or weather clear request whose body has no cp_id is
\* answered 400, one that names a CP Central does not know is answered 404,
\* and neither changes a CP record, a driver record, the alert list or the
\* history.
NoCpId(data) == data.kind # "object" \/ "cp_id" \notin data.items
UnknownCp(data) == ~NoCpId(data) /\ data.cp_id \notin DOMAIN charging_points
C31_WeatherRequestRefused ==
    [][\A data \in JsonBodies :
          (weather_alert_request(data) \/ weather_clear_request(data))
          => /\ NoCpId(data) => response' = jsonify(400)
             /\ UnknownCp(data) => response' = jsonify(404)
             /\ (NoCpId(data) \/ UnknownCp(data))
                => UNCHANGED <<charging_points, drivers, weather_alerts, history>>]_vars

\* A request without a cp_id has been answered while d1 is charging on c1.
C31_Witness ==
    /\ response \in {jsonify(400), jsonify(500)}
    /\ ActiveSession("c1", "d1")

\* The same, restricted to bodies that are JSON objects or absent.
C31_ObjectBodies ==
    [][\A data \in {b \in JsonBodies : b.kind \in {"null", "object"}} :
          (weather_alert_request(data) \/ weather_clear_request(data))
          => /\ NoCpId(data) => response' = jsonify(400)
             /\ UnknownCp(data) => response' = jsonify(404)
             /\ (NoCpId(data) \/ UnknownCp(data))
                => UNCHANGED <<charging_points, drivers, weather_alerts, history>>]_vars

\* C32: when END_CHARGE ends a session, the energy in the TICKET and in the
\* history record is the energy Central accumulated from the session's
\* SUPPLY_UPDATE increments, clamped to the energy requested; the elapsed-time
\* estimate never makes it differ.
C32_EndChargeBillsAccumulator ==
    [][handle_end_charge(FirstDriverConn, "d1", "c1") /\ ActiveSession("c1", "d1")
       => LET cp == charging_points["c1"]
              accumulated == Min(cp.kwh_delivered, get_kwh_needed(cp))
              ops == pend'[FirstDriverConn]
          IN \A i \in 1..Len(ops) :
                /\ ops[i].op = "hist" => ops[i].rec.kwh_delivered = accumulated
                /\ (ops[i].op = "ent" /\ ops[i].msg.type = "TICKET")
                   => ops[i].msg.kwh = accumulated]_vars

\* d1 is charging on c1 and an increment has been counted: END_CHARGE can come.
C32_Witness ==
    /\ ActiveSession("c1", "d1")
    /\ charging_points["c1"].kwh_delivered > 0
    /\ Idle(FirstDriverConn)

\* C33: the TICKET that ends a session is the last message Central sends to
\* the driver for that session: once it has been written to the driver's
\* connection, no SUPPLY_UPDATE of that session is forwarded to the driver,
\* however the CP's worker and the terminating worker interleave.  (Checked on
\* the step that follows the write of the TICKET, before any new session.)
WrittenTo(ws, c, type) == \E i \in 1..Len(ws) : ws[i].to = c /\ ws[i].msg.type = type
C33_TicketIsLast ==
    [][WrittenTo(sent, FirstDriverConn, "TICKET") /\ ~ActiveSession("c1", "d1")
       => ~(WrittenTo(sent', FirstDriverConn, "SUPPLY_UPDATE")
            /\ ~ActiveSession("c1", "d1")')]_vars

\* The TICKET has just been written while the CP's worker, which read the
\* current driver before the session ended, has yet to forward its update.
C33_Witness ==
    /\ WrittenTo(sent, FirstDriverConn, "TICKET")
    /\ pend[EngineConn] # <<>>
    /\ pend[EngineConn][1].op = "ent"
    /\ pend[EngineConn][1].id = "d1"

\* C34: frames that different workers write to the same connection are never
\* interleaved: the connection receives them as whole frames in one total
\* order.  (Stated for two sends that each handed over every byte.)
AllTaken == \A t \in Writers : sending[t].returned /\ sending[t].taken = Len(sending[t].data)
C34_WholeFramesInOrder ==
    AllTaken =>
       /\ extract(written).buffer = <<>>
       /\ extract(written).messages \in {<<Payloads[1], Payloads[2]>>,
                                         <<Payloads[2], Payloads[1]>>}

\* Both sends are in progress at once: each has handed over a part of its
\* frame and waits for room.
C34_Witness ==
    \A t \in Writers : ~sending[t].returned /\ sending[t].taken > 0

\* C35: a SUPPLY_END that names a driver other than d2 never ends or alters
\* the session c1 is running for d2 (c1 Supplying with current driver d2, d2
\* Charging on c1), also when it is the engine's late answer to the
\* END_SUPPLY that closed d1's session.
SupplyEndOf(d) ==
    /\ to_central # <<>>
    /\ Head(to_central).type = "SUPPLY_END"
    /\ Head(to_central).driver = d
C35_ForeignSupplyEndKeepsSession ==
    [][SupplyEndOf("d1") /\ process_message(EngineConn) /\ ActiveSession("c1", "d2")
       => /\ ActiveSession("c1", "d2")'
          /\ charging_points'["c1"] = charging_points["c1"]]_vars

\* The engine's SUPPLY_END for d1 is on its way while c1 runs d2's session.
C35_Witness ==
    /\ SupplyEndOf("d1")
    /\ ActiveSession("c1", "d2")
    /\ Idle(EngineConn)

\* C36: a REQUEST_CHARGE whose processing does not lead to an AUTHORIZE being
\* sent (its driver id was never registered, for one) leaves the CP's record
\* as it was: a CP is never left Supplying for a driver Central has no record
\* of.
C36_NoAuthorizeNoChange ==
    [][\A c \in DriverConns, k \in KwhRequests :
          handle_charge_request(c, DriverOf(c), "c1", k) /\ pend'[c] = <<>>
          => /\ UNCHANGED charging_points
             /\ Busy("c1")' => charging_points'["c1"].current_driver \in DOMAIN drivers']_vars

\* c1 is Activated and free, and the client on a driver connection has not
\* registered its driver: its REQUEST_CHARGE can come.
C36_Witness ==
    /\ Known("c1")
    /\ deny_reason(charging_points, "c1") = NONE
    /\ \E c \in DriverConns : Idle(c) /\ DriverOf(c) \notin DOMAIN drivers

\* C37: every REQUEST_CHARGE that has all four fields and names a registered
\* driver is answered on the requesting connection with exactly one of
\* AUTHORIZE and DENY: never both, never neither.
Denied(c) == WrittenTo(sent, c, "DENY")
AuthorizeLeft(c) ==
    \E i \in 1..Len(pend[c]) :
       /\ pend[c][i].op = "sock"
       /\ pend[c][i].to = c
       /\ pend[c][i].msg.type = "AUTHORIZE"
FourFields(f) == f.type = "REQUEST_CHARGE" /\ Len(f.args) >= 3
C37_ExactlyOneAnswer ==
    [][\A f \in ClientFrames :
          receive_frame(FirstDriverConn, f) /\ FourFields(f) /\ f.args[1] \in DOMAIN drivers
          => Denied(FirstDriverConn)' # AuthorizeLeft(FirstDriverConn)']_vars

\* d1 is registered and its connection is open: a request can come.
C37_Witness ==
    /\ "d1" \in DOMAIN drivers
    /\ Known("c1")
    /\ Idle(FirstDriverConn)

\* The same for the requests whose fourth field is a number.
C37_NumericRequests ==
    [][\A f \in {g \in ClientFrames : FourFields(g) /\ is_float(g.args[3])} :
          receive_frame(FirstDriverConn, f) /\ f.args[1] \in DOMAIN drivers
          => Denied(FirstDriverConn)' # AuthorizeLeft(FirstDriverConn)']_vars

\* C38: an authorized session that is left running while the engine keeps
\* ticking is eventually marked charging-complete by Central (which then
\* sends CHARGING_COMPLETE to the monitor), because the increments of the
\* engine's SUPPLY_UPDATE frames add up to the requested energy.
C38_EventuallyComplete ==
    ActiveSession("c1", "d1") ~> (Known("c1") /\ charging_points["c1"].charging_complete)

\* The engine has counted the whole session and Central has read every
\* update it sent: Central's counter is short of the requested energy.
C38_Witness ==
    /\ ActiveSession("c1", "d1")
    /\ engine.has_session
    /\ engine.kwh_delivered = engine.kwh_needed
    /\ to_central = <<>>
    /\ charging_points["c1"].kwh_delivered < charging_points["c1"].kwh_needed

\* C39: the monitor writes FAULT to Central only when the last three health
\* checks have failed, and once per outage; it writes RECOVERY only at a
\* HEALTH_OK that follows a FAULT, and at the first one; so on its Central
\* connection FAULT and RECOVERY strictly alternate, starting with FAULT.
Alternating ==
    \A i \in 1..Len(notices) : notices[i] = IF i % 2 = 1 THEN "FAULT" ELSE "RECOVERY"
Last(s) == s[Len(s)]
C39_FaultRecoveryAlternate ==
    [][/\ Alternating'
       /\ (notices' # notices /\ Last(notices') = "FAULT")
          => /\ Len(checks') = failure_threshold
             /\ \A i \in 1..Len(checks') : Failed(checks'[i])
       /\ (notices' # notices /\ Last(notices') = "RECOVERY")
          => Last(checks') = "HEALTH_OK"
       /\ (checks' # checks /\ Last(checks') = "HEALTH_OK" /\ notices # <<>>
           /\ Last(notices) = "FAULT" /\ monitor.central_socket = "open")
          => notices' = Append(notices, "RECOVERY")]_vars

\* A second outage has been reported after a fault and a recovery.
C39_Witness == notices = <<"FAULT", "RECOVERY", "FAULT">>

\* The engine stays down after the fault was reported: failures go on.
C39_WitnessOnce ==
    /\ notices = <<"FAULT">>
    /\ monitor.consecutive_failures > failure_threshold

\* C40: an automated driver whose request is authorized eventually receives
\* the TICKET or DENY of that session and moves on to its next request, so
\* that, with Central and the engine running and nobody else acting, it
\* eventually processes every request of its file and stops.
C40_AutoDriverFinishes ==
    /\ (auto.status = "CHARGING") ~> (auto.status = "IDLE")
    /\ <>(~auto.running)

\* The driver has read its AUTHORIZE, and the engine has counted the whole
\* session: from here on the engine sends heartbeats only.
C40_Witness ==
    /\ auto.status = "CHARGING"
    /\ engine.has_session
    /\ engine.kwh_delivered = engine.kwh_needed
    /\ to_driver = <<>>

\* A driver whose only request was denied has stopped.
C40_WitnessStopped ==
    /\ ~auto.running
    /\ auto.current_request_number = Len(auto.charging_requests)

====
